---- MODULE Spec2Model ----
(***************************************************************************)
(* State-machine model of the armadillo game core: the entity models       *)
(* (models/armadillo.py, models/habitat.py, models/breeding.py), the       *)
(* GameState store (services/state.py) and Persistence.load                *)
(* (services/persistence.py).                                              *)
(*                                                                         *)
(* Conventions.                                                            *)
(*  - Timestamps are Python floats; they are counted here in units of      *)
(*    1/Scale second, so a whole second is Scale units and int(x) of a     *)
(*    positive float is x \div Scale.                                      *)
(*  - A Python str genotype is the sequence of its characters.             *)
(*  - Python None is the string None for ids, NoResult for a job result    *)
(*    and NoTs for a missing meta["now_ts"].                               *)
(*  - A constructor or method that can raise returns [ok |-> FALSE] or     *)
(*    [ok |-> TRUE, val |-> v].                                            *)
(***************************************************************************)
EXTENDS Integers, Sequences, FiniteSets, TLC

\* ------------------------------------------------------------------ bounds
Scale == 2
MaxNow == 4
MaxClock == 2
MaxCalls == 3

\* ------------------------------------------------------- program constants
REWARD_CARE == 3
DEFAULT_INCUBATION_S == 30
COST_FOOD == 5
COST_TOY == 8
COST_HABITAT_UPGRADE == 25
UPGRADE_CAPACITY_DELTA == 1
AdultAge == 14
FeedAmount == 20
PetAmount == 15
SeedCoins == 100
NewbornStat == 60
HatchMutationChance == 5

None == "None"
NoResult == [none |-> TRUE]
NoTs == [tag |-> "absent", v |-> 0]
FloatTs(t) == [tag |-> "float", v |-> t]
IntTs(t) == [tag |-> "int", v |-> t]

ALLOWED_STATUS == {"incubating", "done"}
ALLOWED_ALLELES == {"A", "a", "B"}
\* random.choice(_NAME_POOL): the first name of the pool stands for the
\* eleven; no rule of the program reads a name.
NAME_POOL == {"Pebble"}

Min(a, b) == IF a < b THEN a ELSE b
Max(a, b) == IF a > b THEN a ELSE b

Raise == [ok |-> FALSE]
Ok(v) == [ok |-> TRUE, val |-> v]

SeqToSet(s) == {s[i] : i \in 1..Len(s)}

\* ------------------------------------------------------ models/armadillo.py
_clamp(value) == Max(0, Min(100, value))

\* Armadillo(...) followed by __post_init__
Armadillo(id, name, sex, age_days, hunger, happiness, genes, color) ==
    IF sex \notin {"M", "F"} THEN Raise
    ELSE IF age_days < 0 THEN Raise
    ELSE Ok([id |-> id, name |-> name, sex |-> sex, age_days |-> age_days,
             hunger |-> _clamp(hunger), happiness |-> _clamp(happiness),
             genes |-> genes, color |-> color,
             is_baby |-> ~(age_days >= AdultAge),
             is_adult |-> age_days >= AdultAge])

ArmadilloRequired ==
    {"id", "name", "sex", "age_days", "hunger", "happiness", "genes", "color"}

ArmadilloToDict(a) ==
    [id |-> a.id, name |-> a.name, sex |-> a.sex, age_days |-> a.age_days,
     hunger |-> a.hunger, happiness |-> a.happiness, genes |-> a.genes,
     color |-> a.color, is_baby |-> a.is_baby, is_adult |-> a.is_adult]

\* from_dict that does not pass the colour on (the field's default is taken)
ArmadilloFromDict_default_color(d) ==
    IF ArmadilloRequired \ DOMAIN d # {} THEN Raise
    ELSE Armadillo(d.id, d.name, d.sex, d.age_days, d.hunger, d.happiness,
                   d.genes, "Brown")

ArmadilloFromDict(d) ==
    IF ArmadilloRequired \ DOMAIN d # {} THEN Raise
    ELSE Armadillo(d.id, d.name, d.sex, d.age_days, d.hunger, d.happiness,
                   d.genes, d.color)

\* Armadillo.feed / Armadillo.pet with a non-negative amount
ArmadilloFeed(a, amount) == [a EXCEPT !.hunger = _clamp(a.hunger + amount)]
ArmadilloPet(a, amount) == [a EXCEPT !.happiness = _clamp(a.happiness + amount)]

\* feed without the clamp
feed_unclamped(a, amount) ==
    IF amount < 0 THEN [a |-> a, ret |-> "raise"]
    ELSE [a |-> [a EXCEPT !.hunger = a.hunger + amount], ret |-> "None"]

\* Armadillo.feed / pet / age_up for any integer argument: the creature
\* they leave and what they return ("raise" for the ValueError)
feed(a, amount) ==
    IF amount < 0 THEN [a |-> a, ret |-> "raise"]
    ELSE [a |-> ArmadilloFeed(a, amount), ret |-> "None"]

pet(a, amount) ==
    IF amount < 0 THEN [a |-> a, ret |-> "raise"]
    ELSE [a |-> ArmadilloPet(a, amount), ret |-> "None"]

\* age_up that leaves the life-stage flags as they were
age_up_keeps_flags(a, days) ==
    IF days < 0 THEN [a |-> a, ret |-> "raise"]
    ELSE [a |-> [a EXCEPT !.age_days = a.age_days + days], ret |-> "None"]

age_up(a, days) ==
    IF days < 0 THEN [a |-> a, ret |-> "raise"]
    ELSE [a |-> [a EXCEPT !.age_days = a.age_days + days,
                          !.is_adult = a.age_days + days >= AdultAge,
                          !.is_baby = ~(a.age_days + days >= AdultAge)],
          ret |-> "None"]

\* x.to_dict() with the key k left out, then Armadillo.from_dict of it: the
\* creature built and "None", or the creature x and "raise"
FromDictWithout(x, keys) ==
    LET doc == ArmadilloToDict(x)
        r == ArmadilloFromDict([k \in DOMAIN doc \ keys |-> doc[k]])
    IN  IF r.ok THEN [a |-> r.val, ret |-> "None"] ELSE [a |-> x, ret |-> "raise"]

\* -------------------------------------------------------- models/habitat.py
RECURSIVE Dedup(_, _)
Dedup(s, acc) ==
    IF s = <<>> THEN acc
    ELSE Dedup(Tail(s), IF Head(s) \in SeqToSet(acc) THEN acc
                        ELSE Append(acc, Head(s)))

\* Habitat(...) followed by __post_init__
Habitat(id, name, level, capacity, occupants, hatch_boost_pct) ==
    IF level < 1 THEN Raise
    ELSE IF capacity < 0 THEN Raise
    ELSE IF ~(0 <= hatch_boost_pct /\ hatch_boost_pct <= 100) THEN Raise
    ELSE LET unique == Dedup(occupants, <<>>)
         IN  IF Len(unique) > capacity THEN Raise
             ELSE Ok([id |-> id, name |-> name, level |-> level,
                      capacity |-> capacity, occupants |-> unique,
                      hatch_boost_pct |-> hatch_boost_pct])

HabitatRequired == {"id", "name", "level", "capacity"}

HabitatToDict(h) ==
    [id |-> h.id, name |-> h.name, level |-> h.level, capacity |-> h.capacity,
     occupants |-> h.occupants, hatch_boost_pct |-> h.hatch_boost_pct]

HabitatFromDict(d) ==
    IF HabitatRequired \ DOMAIN d # {} THEN Raise
    ELSE Habitat(d.id, d.name, d.level, d.capacity,
                 IF "occupants" \in DOMAIN d THEN d.occupants ELSE <<>>,
                 IF "hatch_boost_pct" \in DOMAIN d THEN d.hatch_boost_pct ELSE 0)

has_space(h) == Len(h.occupants) < h.capacity

\* Habitat.add without the test "armadillo_id in self.occupants"
HabitatAdd_again(h, armadillo_id) ==
    IF ~has_space(h) THEN [h |-> h, ret |-> "False"]
    ELSE [h |-> [h EXCEPT !.occupants = Append(@, armadillo_id)], ret |-> "True"]

\* Habitat.add / remove / upgrade: the enclosure they leave and what they
\* return ("raise" for the ValueError of upgrade)
HabitatAdd(h, armadillo_id) ==
    IF ~has_space(h) THEN [h |-> h, ret |-> "False"]
    ELSE IF armadillo_id \in SeqToSet(h.occupants) THEN [h |-> h, ret |-> "False"]
    ELSE [h |-> [h EXCEPT !.occupants = Append(@, armadillo_id)], ret |-> "True"]

\* list.remove: the first occurrence goes, ValueError is passed over
HabitatRemove(h, armadillo_id) ==
    LET hits == {i \in 1..Len(h.occupants) : h.occupants[i] = armadillo_id}
        first == CHOOSE i \in hits : \A j \in hits : i <= j
    IN  IF hits = {} THEN [h |-> h, ret |-> "None"]
        ELSE [h |-> [h EXCEPT !.occupants =
                        SubSeq(@, 1, first - 1) \o SubSeq(@, first + 1, Len(@))],
              ret |-> "None"]

\* upgrade without the test of the occupant count
HabitatUpgrade_shrinks(h, capacity_delta, level_delta) ==
    LET new_level == h.level + level_delta
        new_capacity == h.capacity + capacity_delta
    IN  IF new_level < 1 THEN [h |-> h, ret |-> "raise"]
        ELSE IF new_capacity < 0 THEN [h |-> h, ret |-> "raise"]
        ELSE [h |-> [h EXCEPT !.level = new_level, !.capacity = new_capacity],
              ret |-> "None"]

HabitatUpgrade(h, capacity_delta, level_delta) ==
    LET new_level == h.level + level_delta
        new_capacity == h.capacity + capacity_delta
    IN  IF new_level < 1 THEN [h |-> h, ret |-> "raise"]
        ELSE IF new_capacity < 0 THEN [h |-> h, ret |-> "raise"]
        ELSE IF new_capacity < Len(h.occupants) THEN [h |-> h, ret |-> "raise"]
        ELSE [h |-> [h EXCEPT !.level = new_level, !.capacity = new_capacity],
              ret |-> "None"]

\* ------------------------------------------------------- models/breeding.py
\* BreedingJob(...) followed by __post_init__
BreedingJob(id, parent_m_id, parent_f_id, start_ts, duration_s, status, result) ==
    IF duration_s < 1 THEN Raise
    ELSE IF status \notin ALLOWED_STATUS THEN Raise
    ELSE Ok([id |-> id, parent_m_id |-> parent_m_id, parent_f_id |-> parent_f_id,
             start_ts |-> start_ts, duration_s |-> duration_s,
             status |-> status, result |-> result])

JobRequired ==
    {"id", "parent_m_id", "parent_f_id", "start_ts", "duration_s", "status"}

JobToDict(j) ==
    [id |-> j.id, parent_m_id |-> j.parent_m_id, parent_f_id |-> j.parent_f_id,
     start_ts |-> j.start_ts, duration_s |-> j.duration_s, status |-> j.status,
     result |-> j.result]

JobFromDict(d) ==
    IF JobRequired \ DOMAIN d # {} THEN Raise
    ELSE BreedingJob(d.id, d.parent_m_id, d.parent_f_id, d.start_ts,
                     d.duration_s, d.status,
                     IF "result" \in DOMAIN d THEN d.result ELSE NoResult)

\* remaining without the floor at zero
remaining_signed(job, now) ==
    LET raw == job.duration_s * Scale - (now - job.start_ts)
    IN  IF raw <= 0 THEN -((-raw) \div Scale) ELSE raw \div Scale

\* raw = duration_s - (now - start_ts); 0 if raw <= 0 else int(raw)
remaining(job, now) ==
    LET raw == job.duration_s * Scale - (now - job.start_ts)
    IN  IF raw <= 0 THEN 0 ELSE raw \div Scale

is_done(job, now) == job.status # "done" /\ remaining(job, now) = 0

_validate_gene_string(g) ==
    /\ Len(g) = 2
    /\ \A i \in 1..Len(g) : g[i] \in ALLOWED_ALLELES

_phenotype_from_genes(g) ==
    IF "B" \in SeqToSet(g) THEN "Blue"
    ELSE IF "A" \in SeqToSet(g) THEN "Brown"
    ELSE "Albino"

\* combine_genes without the test of mutation_chance
combine_genes_any_chance(color_m, color_f, mutation_chance) ==
    IF ~_validate_gene_string(color_m) \/ ~_validate_gene_string(color_f) THEN {}
    ELSE LET plain == {<<color_m[i], color_f[j]>> : i \in 1..2, j \in 1..2}
             mutated == {<<"B", c[2]>> : c \in plain} \cup {<<c[1], "B">> : c \in plain}
             drawn == (IF mutation_chance < 100 THEN plain ELSE {})
                        \cup (IF mutation_chance > 0 THEN mutated ELSE {})
         IN  {<<c, _phenotype_from_genes(c)>> : c \in drawn}

\* The set of (child_genes, phenotype) results over every outcome of the
\* random choices; {} when the call raises. mutation_chance is counted in
\* hundredths: random.random() lies in [0, 1), so no child is mutated at 0
\* and every child is at 100.
combine_genes(color_m, color_f, mutation_chance) ==
    IF ~_validate_gene_string(color_m) \/ ~_validate_gene_string(color_f) THEN {}
    ELSE IF ~(0 <= mutation_chance /\ mutation_chance <= 100) THEN {}
    ELSE LET plain == {<<color_m[i], color_f[j]>> : i \in 1..2, j \in 1..2}
             mutated == {<<"B", c[2]>> : c \in plain} \cup {<<c[1], "B">> : c \in plain}
             drawn == (IF mutation_chance < 100 THEN plain ELSE {})
                        \cup (IF mutation_chance > 0 THEN mutated ELSE {})
         IN  {<<c, _phenotype_from_genes(c)>> : c \in drawn}

GeneOf(a) == IF "color" \in DOMAIN a.genes THEN a.genes.color ELSE <<"A", "a">>

\* The outcome of the random choices of one hatch_result call: the child
\* genotype combine_genes returns, the sex drawn, and whether the
\* millisecond clock has advanced since it was last read.
Draws == {[genes |-> <<p, q>>, sex |-> x, dt |-> k] :
            p \in ALLOWED_ALLELES, q \in ALLOWED_ALLELES, x \in {"M", "F"}, k \in {0, 1}}
NoDraw == [genes |-> <<"A", "A">>, sex |-> "M", dt |-> 0]

\* hatch_result(dad, mom, 0.05) when time.time()*1000 reads t and the
\* random choices come out as x.
hatch_result(dad, mom, t, x) ==
    IF dad.sex # "M" \/ mom.sex # "F" THEN Raise
    ELSE IF combine_genes(GeneOf(dad), GeneOf(mom), HatchMutationChance) = {} THEN Raise
    ELSE Ok(ArmadilloToDict(
                Armadillo(ToString(t), CHOOSE n \in NAME_POOL : TRUE, x.sex, 0,
                          NewbornStat, NewbornStat, [color |-> x.genes],
                          _phenotype_from_genes(x.genes)).val))

\* x is an outcome the random choices can produce for these parents
CanDraw(dad, mom, x) ==
    \E gp \in combine_genes(GeneOf(dad), GeneOf(mom), HatchMutationChance) :
        gp[1] = x.genes /\ gp[2] = _phenotype_from_genes(x.genes)

\* -------------------------------------------------------- services/state.py
\* The GameState fields, then the environment of a call: the save file, the
\* last value time.time()*1000 returned, and the record of the last call
\* (the store before it, its name, arguments and result, and what each
\* observer notification saw).
VARIABLES coins, inventory, armadillos, habitats, breeding_queue, dex_colors,
          selected_id, meta, disk, clock, pre, last, observed, calls,
          observers, invoked, saving, temps
\* calls: the number of calls the run may still make
\* observers: GameState._observers, the registered callbacks in order
\* invoked: the callbacks the last call's notification pass invoked
\* saving: the position of a Persistence.save call in progress
\* temps: the temporary files in the save directory

vars == <<coins, inventory, armadillos, habitats, breeding_queue, dex_colors,
          selected_id, meta, disk, clock, pre, last, observed, calls,
          observers, invoked, saving, temps>>

Store ==
    [coins |-> coins, inventory |-> inventory, armadillos |-> armadillos,
     habitats |-> habitats, breeding_queue |-> breeding_queue,
     dex_colors |-> dex_colors, selected_id |-> selected_id, meta |-> meta]

EmptyDict == [k \in {} |-> 0]

\* GameState(): the dataclass defaults
NewGameState ==
    [coins |-> 0, inventory |-> EmptyDict, armadillos |-> <<>>, habitats |-> <<>>,
     breeding_queue |-> <<>>, dex_colors |-> {}, selected_id |-> None,
     meta |-> [now_ts |-> NoTs]]

\* The result of a call: the store it leaves, what it returns ("raise" when
\* an exception leaves it), the newborns a tick returns, the jobs a tick
\* marked done (each with its queue position), and the stores the observers
\* saw.
Result(s, ret, seen) ==
    [s |-> s, ret |-> ret, newborns |-> <<>>, hatched |-> <<>>, seen |-> seen]
Notified(s, ret) == Result(s, ret, <<s>>)
Silent(s, ret) == Result(s, ret, <<>>)

\* --- Observers ---
\* A callback is its name and whether calling it raises an Exception.
Callbacks == {[name |-> "topbar", raises |-> FALSE],
              [name |-> "broken", raises |-> TRUE],
              [name |-> "screen", raises |-> FALSE]}

add_observer(obs, cb) ==
    IF \E i \in 1..Len(obs) : obs[i] = cb THEN obs ELSE Append(obs, cb)

\* A notification pass: the callbacks invoked, in order, and whether an
\* exception left the pass.
NoPass == [invoked |-> <<>>, raised |-> FALSE]

\* the pass without the try/except around cb()
RECURSIVE NotifyUnguarded(_, _, _)
NotifyUnguarded(obs, i, pass) ==
    IF i > Len(obs) THEN pass
    ELSE IF obs[i].raises
         THEN [pass EXCEPT !.invoked = Append(@, obs[i].name), !.raised = TRUE]
         ELSE NotifyUnguarded(obs, i + 1, [pass EXCEPT !.invoked = Append(@, obs[i].name)])

\* for cb in list(self._observers): try: cb() except Exception: continue
RECURSIVE NotifyFrom(_, _, _)
NotifyFrom(obs, i, pass) ==
    IF i > Len(obs) THEN pass
    ELSE NotifyFrom(obs, i + 1, [pass EXCEPT !.invoked = Append(@, obs[i].name)])

_notify(obs) == NotifyFrom(obs, 1, NoPass)

\* index of the first element of seq with the id, 0 if none
IndexOf(seq, id) ==
    LET hits == {i \in 1..Len(seq) : seq[i].id = id}
    IN  IF hits = {} THEN 0 ELSE CHOOSE i \in hits : \A j \in hits : i <= j

get_by_id(s, did) == IF did = None THEN 0 ELSE IndexOf(s.armadillos, did)

get_selected(s) == IF s.selected_id # None /\ s.selected_id # ""
                   THEN get_by_id(s, s.selected_id) ELSE 0

DictGet(d, k, default) == IF k \in DOMAIN d THEN d[k] ELSE default

DictSet(d, k, v) == [x \in DOMAIN d \cup {k} |-> IF x = k THEN v ELSE d[x]]

StarterArmadillos ==
    << Armadillo("d1", "Pebble", "M", 14, 70, 70, [color |-> <<"A", "a">>], "Brown").val,
       Armadillo("d2", "Mochi", "F", 14, 65, 75, [color |-> <<"a", "a">>], "Albino").val,
       Armadillo("d3", "Blu", "M", 14, 80, 60, [color |-> <<"A", "B">>], "Blue").val >>

StarterHabitats ==
    << Habitat("h1", "Grassland", 1, 2, <<>>, 0).val,
       Habitat("h2", "Desert", 1, 2, <<>>, 0).val,
       Habitat("h3", "Forest", 1, 2, <<>>, 0).val >>

\* seed_starters without self.breeding_queue.clear()
seed_starters_keeps_queue(s) ==
    Notified([s EXCEPT !.coins = SeedCoins,
                       !.inventory = [k \in {"food", "toy"} |-> IF k = "food" THEN 3 ELSE 1],
                       !.selected_id = None,
                       !.armadillos = StarterArmadillos,
                       !.dex_colors = {StarterArmadillos[i].color : i \in 1..3},
                       !.habitats = StarterHabitats],
             "None")

seed_starters(s) ==
    Notified([s EXCEPT !.coins = SeedCoins,
                       !.inventory = [k \in {"food", "toy"} |-> IF k = "food" THEN 3 ELSE 1],
                       !.breeding_queue = <<>>,
                       !.selected_id = None,
                       !.armadillos = StarterArmadillos,
                       !.dex_colors = {StarterArmadillos[i].color : i \in 1..3},
                       !.habitats = StarterHabitats],
             "None")

select(s, did) ==
    IF did # None /\ get_by_id(s, did) = 0 THEN Silent(s, "raise")
    ELSE Notified([s EXCEPT !.selected_id = did], "None")

\* add_coins without the floor at 0
add_coins_unfloored(s, amt) == Notified([s EXCEPT !.coins = s.coins + amt], "None")

add_coins(s, amt) == Notified([s EXCEPT !.coins = Max(0, s.coins + amt)], "None")

\* buy that stores a count of 1 instead of adding 1 to the count
buy_resets_count(s, item, cost) ==
    IF cost < 0 THEN Silent(s, "raise")
    ELSE IF s.coins < cost THEN Silent(s, "False")
    ELSE Notified([s EXCEPT !.coins = s.coins - cost,
                            !.inventory = DictSet(s.inventory, item, 1)],
                  "True")

\* buy that notifies the observers before it adds the item
buy_notifies_early(s, item, cost) ==
    IF cost < 0 THEN Silent(s, "raise")
    ELSE IF s.coins < cost THEN Silent(s, "False")
    ELSE Result([s EXCEPT !.coins = s.coins - cost,
                          !.inventory = DictSet(s.inventory, item,
                                                DictGet(s.inventory, item, 0) + 1)],
                "True",
                <<[s EXCEPT !.coins = s.coins - cost]>>)

buy(s, item, cost) ==
    IF cost < 0 THEN Silent(s, "raise")
    ELSE IF s.coins < cost THEN Silent(s, "False")
    ELSE Notified([s EXCEPT !.coins = s.coins - cost,
                            !.inventory = DictSet(s.inventory, item,
                                                  DictGet(s.inventory, item, 0) + 1)],
                  "True")

\* upgrade_habitat without hab.level += 1
upgrade_habitat_keeps_level(s, hid, cost, capacity_delta) ==
    LET h == IndexOf(s.habitats, hid)
    IN  IF h = 0 \/ cost < 0 \/ capacity_delta <= 0 \/ s.coins < cost
        THEN Silent(s, "False")
        ELSE Notified([s EXCEPT !.coins = s.coins - cost,
                                !.habitats[h].capacity = @ + capacity_delta],
                      "True")

\* upgrade_habitat that takes the coins before it looks the enclosure up
upgrade_habitat_pays_first(s, hid, cost, capacity_delta) ==
    LET h == IndexOf(s.habitats, hid)
        paid == [s EXCEPT !.coins = s.coins - cost]
    IN  IF cost < 0 \/ capacity_delta <= 0 \/ s.coins < cost THEN Silent(s, "False")
        ELSE IF h = 0 THEN Silent(paid, "False")
        ELSE Notified([paid EXCEPT !.habitats[h].capacity = @ + capacity_delta,
                                   !.habitats[h].level = @ + 1],
                      "True")

upgrade_habitat(s, hid, cost, capacity_delta) ==
    LET h == IndexOf(s.habitats, hid)
    IN  IF h = 0 \/ cost < 0 \/ capacity_delta <= 0 \/ s.coins < cost
        THEN Silent(s, "False")
        ELSE Notified([s EXCEPT !.coins = s.coins - cost,
                                !.habitats[h].capacity = @ + capacity_delta,
                                !.habitats[h].level = @ + 1],
                      "True")

\* the reward paid when either meter exceeds 80
_care_reward_if_either(c, d) ==
    IF d.hunger > 80 \/ d.happiness > 80 THEN c + REWARD_CARE ELSE c

_care_reward_if_earned(c, d) ==
    IF d.hunger > 80 /\ d.happiness > 80 THEN c + REWARD_CARE ELSE c

\* feed_selected that consumes two units of food
feed_selected_takes_two(s) ==
    LET i == get_selected(s)
    IN  IF i = 0 \/ DictGet(s.inventory, "food", 0) <= 0 THEN Silent(s, "False")
        ELSE LET d == ArmadilloFeed(s.armadillos[i], FeedAmount)
                 d2 == [d EXCEPT !.hunger = Max(0, Min(d.hunger, 100))]
             IN  Notified([s EXCEPT !.armadillos[i] = d2,
                                    !.inventory["food"] = @ - 2,
                                    !.coins = _care_reward_if_earned(s.coins, d2)],
                          "True")

feed_selected(s) ==
    LET i == get_selected(s)
    IN  IF i = 0 \/ DictGet(s.inventory, "food", 0) <= 0 THEN Silent(s, "False")
        ELSE LET d == ArmadilloFeed(s.armadillos[i], FeedAmount)
                 d2 == [d EXCEPT !.hunger = Max(0, Min(d.hunger, 100))]
             IN  Notified([s EXCEPT !.armadillos[i] = d2,
                                    !.inventory["food"] = @ - 1,
                                    !.coins = _care_reward_if_earned(s.coins, d2)],
                          "True")

pet_selected(s) ==
    LET i == get_selected(s)
    IN  IF i = 0 THEN Silent(s, "False")
        ELSE LET d == ArmadilloPet(s.armadillos[i], PetAmount)
                 d2 == [d EXCEPT !.happiness = Max(0, Min(d.happiness, 100))]
             IN  Notified([s EXCEPT !.armadillos[i] = d2,
                                    !.coins = _care_reward_if_earned(s.coins, d2)],
                          "True")

Without(seq, x) == SelectSeq(seq, LAMBDA y : y # x)

move_selected_to_habitat(s, hid) ==
    LET i == get_selected(s)
        t == IndexOf(s.habitats, hid)
    IN  IF i = 0 \/ t = 0 THEN Silent(s, "False")
        ELSE LET did == s.armadillos[i].id
                 removed == [k \in 1..Len(s.habitats) |->
                               [s.habitats[k] EXCEPT !.occupants = Without(@, did)]]
                 s1 == [s EXCEPT !.habitats = removed]
             IN  IF Len(removed[t].occupants) >= removed[t].capacity
                 THEN Silent(s1, "False")
                 ELSE Notified([s1 EXCEPT !.habitats[t].occupants =
                                   IF did \in SeqToSet(@) THEN @ ELSE Append(@, did)],
                               "True")

adults(s) == SelectSeq(s.armadillos, LAMBDA d : d.age_days >= AdultAge)

\* start_breeding without the test of is_adult
start_breeding_any_age(s, dad_id, mom_id, duration_s) ==
    LET dad == get_by_id(s, dad_id)
        mom == get_by_id(s, mom_id)
    IN  IF dad_id = mom_id THEN Silent(s, "None")
        ELSE IF dad = 0 \/ mom = 0 THEN Silent(s, "None")
        ELSE IF s.armadillos[dad].sex # "M" \/ s.armadillos[mom].sex # "F"
             THEN Silent(s, "None")
        ELSE LET dur == IF duration_s >= 1 THEN duration_s ELSE DEFAULT_INCUBATION_S
                 job == BreedingJob("b" \o ToString(Len(s.breeding_queue) + 1),
                                    dad_id, mom_id,
                                    IF s.meta.now_ts.tag = "float"
                                    THEN s.meta.now_ts.v ELSE 0,
                                    dur, "incubating", NoResult).val
             IN  Notified([s EXCEPT !.breeding_queue = Append(@, job)], "job")

start_breeding(s, dad_id, mom_id, duration_s) ==
    LET dad == get_by_id(s, dad_id)
        mom == get_by_id(s, mom_id)
    IN  IF dad_id = mom_id THEN Silent(s, "None")
        ELSE IF dad = 0 \/ mom = 0 THEN Silent(s, "None")
        ELSE IF s.armadillos[dad].sex # "M" \/ s.armadillos[mom].sex # "F"
             THEN Silent(s, "None")
        ELSE IF ~s.armadillos[dad].is_adult \/ ~s.armadillos[mom].is_adult
             THEN Silent(s, "None")
        ELSE LET dur == IF duration_s >= 1 THEN duration_s ELSE DEFAULT_INCUBATION_S
                 job == BreedingJob("b" \o ToString(Len(s.breeding_queue) + 1),
                                    dad_id, mom_id,
                                    IF s.meta.now_ts.tag = "float"
                                    THEN s.meta.now_ts.v ELSE 0,
                                    dur, "incubating", NoResult).val
             IN  Notified([s EXCEPT !.breeding_queue = Append(@, job)], "job")

\* One pass of the loop body of breeding_tick for the job at position i,
\* with x the outcome of the random choices of its hatch_result call.
\* acc carries the creature list, the enclosures, the dex, the queue with
\* the jobs mutated in place so far, the jobs kept, the newborns, the last
\* clock reading and whether an exception has left the loop; acc.can says
\* whether the outcomes chosen so far are ones the run can produce (a pass
\* that draws nothing takes NoDraw).
\* the placement without the test of the capacity
PlaceBaby_unchecked(habs, mom_id, baby_id) ==
    LET h == {k \in 1..Len(habs) : mom_id \in SeqToSet(habs[k].occupants)}
        mom_hab == IF h = {} THEN 0 ELSE CHOOSE k \in h : \A j \in h : k <= j
    IN  IF mom_hab # 0 /\ baby_id \notin SeqToSet(habs[mom_hab].occupants)
        THEN [habs EXCEPT ![mom_hab].occupants = Append(@, baby_id)]
        ELSE habs

PlaceBaby(habs, mom_id, baby_id) ==
    LET h == {k \in 1..Len(habs) : mom_id \in SeqToSet(habs[k].occupants)}
        mom_hab == IF h = {} THEN 0 ELSE CHOOSE k \in h : \A j \in h : k <= j
    IN  IF mom_hab # 0
           /\ Len(habs[mom_hab].occupants) < habs[mom_hab].capacity
           /\ baby_id \notin SeqToSet(habs[mom_hab].occupants)
        THEN [habs EXCEPT ![mom_hab].occupants = Append(@, baby_id)]
        ELSE habs

\* The hatch branch that also keeps the job among the remaining jobs.
Hatch_keeps_job(acc, i, job, mom, t, baby_dict) ==
    LET baby == ArmadilloFromDict(baby_dict).val
    IN  [acc EXCEPT !.jobs[i] = [job EXCEPT !.status = "done", !.result = baby_dict],
                    !.remaining = Append(@, job),
                    !.armadillos = Append(@, baby),
                    !.dex_colors = @ \cup {baby.color},
                    !.habitats = PlaceBaby(@, mom.id, baby.id),
                    !.newborns = Append(@, baby),
                    !.hatched = Append(@, [pos |-> i,
                                           job |-> [job EXCEPT !.status = "done",
                                                               !.result = baby_dict]]),
                    !.clock = t]

\* The hatch branch that puts the newborn at the head of the creature list.
Hatch_prepends_baby(acc, i, job, mom, t, baby_dict) ==
    LET baby == ArmadilloFromDict(baby_dict).val
    IN  [acc EXCEPT !.jobs[i] = [job EXCEPT !.status = "done", !.result = baby_dict],
                    !.armadillos = <<baby>> \o @,
                    !.dex_colors = @ \cup {baby.color},
                    !.habitats = PlaceBaby(@, mom.id, baby.id),
                    !.newborns = Append(@, baby),
                    !.hatched = Append(@, [pos |-> i,
                                           job |-> [job EXCEPT !.status = "done",
                                                               !.result = baby_dict]]),
                    !.clock = t]

\* The hatch branch whose newborn is already grown up.
Hatch_grown_baby(acc, i, job, mom, t, baby_dict) ==
    LET baby == [ArmadilloFromDict(baby_dict).val EXCEPT !.age_days = AdultAge,
                                                         !.is_baby = FALSE,
                                                         !.is_adult = TRUE]
    IN  [acc EXCEPT !.jobs[i] = [job EXCEPT !.status = "done", !.result = baby_dict],
                    !.armadillos = Append(@, baby),
                    !.dex_colors = @ \cup {baby.color},
                    !.habitats = PlaceBaby(@, mom.id, baby.id),
                    !.newborns = Append(@, baby),
                    !.hatched = Append(@, [pos |-> i,
                                           job |-> [job EXCEPT !.status = "done",
                                                               !.result = baby_dict]]),
                    !.clock = t]

\* The hatch branch without the dex entry.
Hatch_without_dex(acc, i, job, mom, t, baby_dict) ==
    LET baby == ArmadilloFromDict(baby_dict).val
    IN  [acc EXCEPT !.jobs[i] = [job EXCEPT !.status = "done", !.result = baby_dict],
                    !.armadillos = Append(@, baby),
                    !.habitats = PlaceBaby(@, mom.id, baby.id),
                    !.newborns = Append(@, baby),
                    !.hatched = Append(@, [pos |-> i,
                                           job |-> [job EXCEPT !.status = "done",
                                                               !.result = baby_dict]]),
                    !.clock = t]

\* The hatch branch that marks the job done and stores no result in it.
Hatch_without_result(acc, i, job, mom, t, baby_dict) ==
    LET baby == ArmadilloFromDict(baby_dict).val
    IN  [acc EXCEPT !.jobs[i] = [job EXCEPT !.status = "done"],
                    !.armadillos = Append(@, baby),
                    !.dex_colors = @ \cup {baby.color},
                    !.habitats = PlaceBaby(@, mom.id, baby.id),
                    !.newborns = Append(@, baby),
                    !.hatched = Append(@, [pos |-> i,
                                           job |-> [job EXCEPT !.status = "done"]]),
                    !.clock = t]

Hatch(acc, i, job, mom, t, baby_dict) ==
    LET baby == ArmadilloFromDict(baby_dict).val
    IN  [acc EXCEPT !.jobs[i] = [job EXCEPT !.status = "done", !.result = baby_dict],
                    !.armadillos = Append(@, baby),
                    !.dex_colors = @ \cup {baby.color},
                    !.habitats = PlaceBaby(@, mom.id, baby.id),
                    !.newborns = Append(@, baby),
                    !.hatched = Append(@, [pos |-> i,
                                           job |-> [job EXCEPT !.status = "done",
                                                               !.result = baby_dict]]),
                    !.clock = t]

TickJob(acc, i, now, x) ==
    LET job0 == acc.jobs[i]
        job == IF job0.start_ts = 0 THEN [job0 EXCEPT !.start_ts = now] ELSE job0
        a1 == [acc EXCEPT !.jobs[i] = job]
        dad == IndexOf(acc.armadillos, job.parent_m_id)
        mom == IndexOf(acc.armadillos, job.parent_f_id)
        none == [a1 EXCEPT !.can = (x = NoDraw)]
    IN  IF acc.raised THEN [acc EXCEPT !.can = (x = NoDraw)]
        ELSE IF ~is_done(job, now) THEN [none EXCEPT !.remaining = Append(@, job)]
        ELSE IF dad = 0 \/ mom = 0 THEN none
        ELSE LET d == acc.armadillos[dad]
                 m == acc.armadillos[mom]
                 t == acc.clock + x.dt
                 r == hatch_result(d, m, t, x)
             IN  IF ~r.ok THEN [none EXCEPT !.raised = TRUE]
                 ELSE IF ~CanDraw(d, m, x) \/ t > MaxClock THEN [a1 EXCEPT !.can = FALSE]
                 ELSE Hatch(a1, i, job, m, t, r.val)

RECURSIVE TickLoop(_, _, _)
TickLoop(accs, i, now) ==
    IF \A a \in accs : i > Len(a.jobs) THEN accs
    ELSE TickLoop({r \in {TickJob(a, i, now, x) : a \in accs, x \in Draws} : r.can},
                  i + 1, now)

\* breeding_tick that notifies whenever it returns
breeding_tick_always_notifies(s, c, now) ==
    LET s0 == [s EXCEPT !.meta.now_ts = FloatTs(now)]
        acc0 == [armadillos |-> s.armadillos, habitats |-> s.habitats,
                 dex_colors |-> s.dex_colors, jobs |-> s.breeding_queue,
                 remaining |-> <<>>, newborns |-> <<>>, hatched |-> <<>>,
                 clock |-> c, raised |-> FALSE, can |-> TRUE]
        finish(a) ==
            LET s1 == [s0 EXCEPT !.armadillos = a.armadillos,
                                 !.habitats = a.habitats,
                                 !.dex_colors = a.dex_colors,
                                 !.breeding_queue =
                                     IF a.raised THEN a.jobs ELSE a.remaining]
            IN  [s |-> s1,
                 ret |-> IF a.raised THEN "raise" ELSE "list",
                 newborns |-> IF a.raised THEN <<>> ELSE a.newborns,
                 hatched |-> a.hatched,
                 seen |-> IF ~a.raised THEN <<s1>> ELSE <<>>,
                 clock |-> a.clock]
    IN  {finish(a) : a \in TickLoop({acc0}, 1, now)}

\* breeding_tick(now): the set of results over the random outcomes, each
\* with the clock reading it leaves.
breeding_tick(s, c, now) ==
    LET s0 == [s EXCEPT !.meta.now_ts = FloatTs(now)]
        acc0 == [armadillos |-> s.armadillos, habitats |-> s.habitats,
                 dex_colors |-> s.dex_colors, jobs |-> s.breeding_queue,
                 remaining |-> <<>>, newborns |-> <<>>, hatched |-> <<>>,
                 clock |-> c, raised |-> FALSE, can |-> TRUE]
        finish(a) ==
            LET s1 == [s0 EXCEPT !.armadillos = a.armadillos,
                                 !.habitats = a.habitats,
                                 !.dex_colors = a.dex_colors,
                                 !.breeding_queue =
                                     IF a.raised THEN a.jobs ELSE a.remaining]
            IN  [s |-> s1,
                 ret |-> IF a.raised THEN "raise" ELSE "list",
                 newborns |-> IF a.raised THEN <<>> ELSE a.newborns,
                 hatched |-> a.hatched,
                 seen |-> IF ~a.raised /\ a.newborns # <<>> THEN <<s1>> ELSE <<>>,
                 clock |-> a.clock]
    IN  {finish(a) : a \in TickLoop({acc0}, 1, now)}

\* --- Serialization ---
\* sorted() of a set of phenotype names
ColorOrder == <<"Albino", "Blue", "Brown">>
Sorted(S) == SelectSeq(ColorOrder, LAMBDA c : c \in S)

MapSeq(f(_), seq) == [i \in 1..Len(seq) |-> f(seq[i])]
AllOk(rs) == \A i \in 1..Len(rs) : rs[i].ok
Vals(rs) == [i \in 1..Len(rs) |-> rs[i].val]

\* to_dict that writes no selection
to_dict_without_selection(s) ==
    [coins |-> s.coins, inventory |-> s.inventory,
     armadillos |-> MapSeq(ArmadilloToDict, s.armadillos),
     habitats |-> MapSeq(HabitatToDict, s.habitats),
     breeding_queue |-> MapSeq(JobToDict, s.breeding_queue),
     dex_colors |-> Sorted(s.dex_colors),
     selected_id |-> None,
     meta |-> s.meta]

to_dict(s) ==
    [coins |-> s.coins, inventory |-> s.inventory,
     armadillos |-> MapSeq(ArmadilloToDict, s.armadillos),
     habitats |-> MapSeq(HabitatToDict, s.habitats),
     breeding_queue |-> MapSeq(JobToDict, s.breeding_queue),
     dex_colors |-> Sorted(s.dex_colors),
     selected_id |-> s.selected_id,
     meta |-> s.meta]

\* from_dict without the test "aid in all_ids" of its occupant loop
from_dict_keeps_unknown(s, d) ==
    LET s1 == [s EXCEPT !.coins = DictGet(d, "coins", 0)]
        s2 == [s1 EXCEPT !.inventory = DictGet(d, "inventory", EmptyDict)]
        arms == MapSeq(ArmadilloFromDict, DictGet(d, "armadillos", <<>>))
        habs == MapSeq(HabitatFromDict, DictGet(d, "habitats", <<>>))
        jobs == MapSeq(JobFromDict, DictGet(d, "breeding_queue", <<>>))
    IN  IF ~AllOk(arms) THEN Silent(s2, "raise")
        ELSE LET s3 == [s2 EXCEPT !.armadillos = Vals(arms)]
                 all_ids == {s3.armadillos[i].id : i \in 1..Len(s3.armadillos)}
                 sel == DictGet(d, "selected_id", None)
                 clean(h) ==
                     LET unique == Dedup(h.occupants, <<>>)
                     IN  [h EXCEPT !.occupants =
                              SubSeq(unique, 1, Min(Len(unique), Max(0, h.capacity)))]
             IN  IF ~AllOk(habs) THEN Silent(s3, "raise")
                 ELSE LET s4 == [s3 EXCEPT !.habitats = Vals(habs)]
                      IN  IF ~AllOk(jobs) THEN Silent(s4, "raise")
                          ELSE Notified(
                                 [s4 EXCEPT !.breeding_queue = Vals(jobs),
                                            !.dex_colors = SeqToSet(DictGet(d, "dex_colors", <<>>)),
                                            !.selected_id = IF sel \in all_ids THEN sel ELSE None,
                                            !.meta = DictGet(d, "meta", [now_ts |-> NoTs]),
                                            !.habitats = MapSeq(clean, Vals(habs))],
                                 "None")

\* from_dict(d): the assignments in order; an exception in a list
\* comprehension leaves the fields assigned before it.
from_dict(s, d) ==
    LET s1 == [s EXCEPT !.coins = DictGet(d, "coins", 0)]
        s2 == [s1 EXCEPT !.inventory = DictGet(d, "inventory", EmptyDict)]
        arms == MapSeq(ArmadilloFromDict, DictGet(d, "armadillos", <<>>))
        habs == MapSeq(HabitatFromDict, DictGet(d, "habitats", <<>>))
        jobs == MapSeq(JobFromDict, DictGet(d, "breeding_queue", <<>>))
    IN  IF ~AllOk(arms) THEN Silent(s2, "raise")
        ELSE LET s3 == [s2 EXCEPT !.armadillos = Vals(arms)]
                 all_ids == {s3.armadillos[i].id : i \in 1..Len(s3.armadillos)}
                 sel == DictGet(d, "selected_id", None)
                 clean(h) ==
                     LET unique == Dedup(SelectSeq(h.occupants,
                                                   LAMBDA aid : aid \in all_ids), <<>>)
                     IN  [h EXCEPT !.occupants =
                              SubSeq(unique, 1, Min(Len(unique), Max(0, h.capacity)))]
             IN  IF ~AllOk(habs) THEN Silent(s3, "raise")
                 ELSE LET s4 == [s3 EXCEPT !.habitats = Vals(habs)]
                      IN  IF ~AllOk(jobs) THEN Silent(s4, "raise")
                          ELSE Notified(
                                 [s4 EXCEPT !.breeding_queue = Vals(jobs),
                                            !.dex_colors = SeqToSet(DictGet(d, "dex_colors", <<>>)),
                                            !.selected_id = IF sel \in all_ids THEN sel ELSE None,
                                            !.meta = DictGet(d, "meta", [now_ts |-> NoTs]),
                                            !.habitats = MapSeq(clean, Vals(habs))],
                                 "None")

\* ------------------------------------------------- services/persistence.py
\* Persistence.load(state): the file at the save path is absent, is not
\* JSON, or holds a document.
load(s, file) ==
    IF file.kind = "absent" THEN Silent(s, "False")
    ELSE IF file.kind = "garbage" THEN Silent(s, "False")
    ELSE LET r == from_dict(s, file.doc)
         IN  IF r.ret = "raise" THEN [r EXCEPT !.ret = "False"]
             ELSE [r EXCEPT !.ret = "True"]

\* ------------------------------------------------------------ save files
SeedStore == seed_starters(NewGameState).s

\* A game in progress: d1 and d2 share the full h1, d3 lives in h2 and is
\* selected, a tick at 1.0 s has passed and two jobs were queued after it.
PlayedStore ==
    [SeedStore EXCEPT
        !.habitats[1].occupants = <<"d1", "d2">>,
        !.habitats[2].occupants = <<"d3">>,
        !.selected_id = "d3",
        !.meta = [now_ts |-> FloatTs(Scale)],
        !.breeding_queue =
            << BreedingJob("b1", "d1", "d2", Scale, 1, "incubating", NoResult).val,
               BreedingJob("b2", "d3", "d2", Scale, 1, "incubating", NoResult).val >>]

\* The seeded game after start_breeding("d1", "d2", 1): the job has not
\* seen a tick yet.
QueuedStore == start_breeding(SeedStore, "d1", "d2", 1).s

\* The seeded game after d2 moved into h1, a tick at 1.0 s and
\* start_breeding("d1", "d2", 1).
HatchingStore ==
    [SeedStore EXCEPT
        !.habitats[1].occupants = <<"d2">>,
        !.selected_id = "d2",
        !.meta = [now_ts |-> FloatTs(Scale)],
        !.breeding_queue =
            << BreedingJob("b1", "d1", "d2", Scale, 1, "incubating", NoResult).val >>]

\* HatchingStore after d1 also moved into h1, which is full then.
CrowdedStore ==
    [HatchingStore EXCEPT !.habitats[1].occupants = <<"d2", "d1">>,
                          !.selected_id = "d1"]

\* The seeded game after d2 moved into h1, a tick at half a second and two
\* start_breeding calls with d2 as the mother, for 1 s and for 2 s.
StaggeredStore ==
    [SeedStore EXCEPT
        !.habitats[1].occupants = <<"d2">>,
        !.selected_id = "d2",
        !.meta = [now_ts |-> FloatTs(1)],
        !.breeding_queue =
            << BreedingJob("b1", "d1", "d2", 1, 1, "incubating", NoResult).val,
               BreedingJob("b2", "d3", "d2", 1, 2, "incubating", NoResult).val >>]

\* The seeded game after select("d1") and pet_selected(): d1 has hunger 70
\* and happiness 85.
CaredStore == pet_selected(select(SeedStore, "d1").s).s

\* CaredStore after feed_selected(): d1 has hunger 90, the care reward was
\* paid, two units of food are left.
PamperedStore == feed_selected(CaredStore).s

\* PamperedStore after two more feed_selected() calls: no food is left.
SpentStore == feed_selected(feed_selected(PamperedStore).s).s

\* StaggeredStore with h1 upgraded once before the jobs were started: h1
\* holds d2 and has room for two more.
RoomyStore ==
    [StaggeredStore EXCEPT !.coins = @ - COST_HABITAT_UPGRADE,
                           !.habitats[1].capacity = @ + UPGRADE_CAPACITY_DELTA,
                           !.habitats[1].level = @ + 1]

Drop(rec, key) == [k \in DOMAIN rec \ {key} |-> rec[k]]

DocSeed == to_dict(SeedStore)
DocPlayed == to_dict(PlayedStore)
DocQueued == to_dict(QueuedStore)
DocHatching == to_dict(HatchingStore)
DocCrowded == to_dict(CrowdedStore)
DocStaggered == to_dict(StaggeredStore)
\* A game holding Pebble and Mochi only, with their two phenotypes in the
\* dex and their job queued after a tick at 0.5 s.
PairStore ==
    [SeedStore EXCEPT
        !.armadillos = SubSeq(@, 1, 2),
        !.dex_colors = {"Brown", "Albino"},
        !.meta = [now_ts |-> FloatTs(1)],
        !.breeding_queue =
            << BreedingJob("b1", "d1", "d2", 1, 1, "incubating", NoResult).val >>]

DocPair == to_dict(PairStore)
DocRoomy == to_dict(RoomyStore)
DocCared == to_dict(CaredStore)
DocPampered == to_dict(PamperedStore)
DocSpent == to_dict(SpentStore)

\* a creature record without "sex"
DocBadCreature ==
    [DocSeed EXCEPT !.coins = 7,
                    !.inventory = [k \in {"food"} |-> 9],
                    !.armadillos = <<DocSeed.armadillos[1], Drop(DocSeed.armadillos[2], "sex")>>]

\* one creature only, and an enclosure record without "capacity"
DocBadHabitat ==
    [DocSeed EXCEPT !.coins = 7,
                    !.armadillos = <<DocSeed.armadillos[1]>>,
                    !.habitats = <<DocSeed.habitats[1], Drop(DocSeed.habitats[2], "capacity")>>]

\* a job record without "status"
DocBadJob ==
    [DocPlayed EXCEPT !.coins = 7,
                      !.armadillos = <<DocSeed.armadillos[2], DocSeed.armadillos[1]>>,
                      !.habitats = <<DocSeed.habitats[1]>>,
                      !.breeding_queue = <<Drop(DocPlayed.breeding_queue[1], "status")>>]

\* an enclosure of capacity 1 that lists two distinct creatures
DocOverfull ==
    [DocSeed EXCEPT !.coins = 7,
                    !.habitats = <<[DocSeed.habitats[1] EXCEPT !.capacity = 1,
                                                               !.occupants = <<"d1", "d2">>]>>]

\* a document that loads: repeated and unknown occupant ids, an unknown
\* selection, an integer now_ts, a job whose father is unknown, a job
\* already done and a job whose parents have the wrong sexes
DocMessy ==
    [DocSeed EXCEPT
        !.coins = 7,
        !.armadillos = <<DocSeed.armadillos[1], DocSeed.armadillos[2]>>,
        !.habitats = <<[DocSeed.habitats[1] EXCEPT !.capacity = 3,
                            !.occupants = <<"d1", "zz", "d1", "d2">>],
                       [DocSeed.habitats[2] EXCEPT !.occupants = <<"d3", "d2">>]>>,
        !.dex_colors = <<"Brown">>,
        !.selected_id = "d3",
        !.meta = [now_ts |-> IntTs(Scale)],
        !.breeding_queue =
            << JobToDict(BreedingJob("b1", "d9", "d2", Scale, 1, "incubating", NoResult).val),
               JobToDict(BreedingJob("b2", "d1", "d2", Scale, 1, "done",
                                     DocSeed.armadillos[1]).val),
               JobToDict(BreedingJob("b3", "d2", "d1", Scale, 1, "incubating", NoResult).val) >>]

\* the document of HatchingStore without the creature d2, the mother of
\* its job
DocOrphaned ==
    [DocHatching EXCEPT
        !.armadillos = <<DocSeed.armadillos[1], DocSeed.armadillos[3]>>,
        !.habitats = DocSeed.habitats,
        !.selected_id = None]

Absent == [kind |-> "absent"]
Garbage == [kind |-> "garbage"]
Json(d) == [kind |-> "json", doc |-> d]

Files == {Absent, Garbage, Json(DocSeed), Json(DocPlayed), Json(DocBadCreature),
          Json(DocBadHabitat), Json(DocBadJob), Json(DocOverfull), Json(DocMessy)}

\* ------------------------------------------------------------- the machine
\* GameState() is constructed, some file (or none) lies at the save path,
\* and the run makes at most budget calls.
InitStore(files, budget) ==
    /\ coins = NewGameState.coins
    /\ inventory = NewGameState.inventory
    /\ armadillos = NewGameState.armadillos
    /\ habitats = NewGameState.habitats
    /\ breeding_queue = NewGameState.breeding_queue
    /\ dex_colors = NewGameState.dex_colors
    /\ selected_id = NewGameState.selected_id
    /\ meta = NewGameState.meta
    /\ disk \in files
    /\ clock = 1
    /\ pre = NewGameState
    /\ last = [op |-> "init", args |-> <<>>, ret |-> "None", newborns |-> <<>>,
               hatched |-> <<>>]
    /\ observed = <<>>
    /\ calls = budget
    /\ invoked = <<>>

\* no save in progress
Idle == [pc |-> "idle"]

InitWith(files, budget) ==
    /\ InitStore(files, budget)
    /\ observers = <<>>
    /\ saving = Idle
    /\ temps = <<>>

Init == InitWith(Files, MaxCalls)

\* A call: the store takes the result's fields, the observers are notified
\* if the call notifies, and the call is recorded; an exception leaving the
\* notification pass leaves the call.
Apply(op, args, r) ==
    LET pass == IF r.seen # <<>> THEN _notify(observers) ELSE NoPass
    IN  /\ calls > 0
        /\ saving = Idle
        /\ calls' = calls - 1
        /\ invoked' = pass.invoked
        /\ last' = [op |-> op, args |-> args,
                    ret |-> IF pass.raised THEN "raise" ELSE r.ret,
                    newborns |-> r.newborns, hatched |-> r.hatched]
        /\ coins' = r.s.coins
        /\ inventory' = r.s.inventory
        /\ armadillos' = r.s.armadillos
        /\ habitats' = r.s.habitats
        /\ breeding_queue' = r.s.breeding_queue
        /\ dex_colors' = r.s.dex_colors
        /\ selected_id' = r.s.selected_id
        /\ meta' = r.s.meta
        /\ pre' = Store
        /\ observed' = r.seen

Call(op, args, r) ==
    /\ Apply(op, args, r)
    /\ UNCHANGED <<observers, saving, temps>>

IdInputs == {armadillos[i].id : i \in 1..Len(armadillos)} \cup {"zz"}
AmtInputs == {-150, -5, 12}
BuyInputs == {<<"food", COST_FOOD>>, <<"toy", COST_TOY>>, <<"food", -1>>,
              <<"toy", 150>>}
UpgradeInputs == {<<"h1", COST_HABITAT_UPGRADE, UPGRADE_CAPACITY_DELTA>>,
                  <<"h1", COST_HABITAT_UPGRADE, 0>>,
                  <<"h1", -1, UPGRADE_CAPACITY_DELTA>>,
                  <<"h1", 150, UPGRADE_CAPACITY_DELTA>>,
                  <<"zz", COST_HABITAT_UPGRADE, UPGRADE_CAPACITY_DELTA>>}
HabInputs == {"h1", "h2", "zz"}
StartInputs == {<<d, m, 1>> : d \in IdInputs, m \in IdInputs} \cup {<<"d1", "d2", 0>>}

SeedStarters ==
    /\ Call("seed_starters", <<>>, seed_starters(Store))
    /\ UNCHANGED <<disk, clock>>

Select ==
    \E did \in IdInputs \cup {None} :
        /\ Call("select", <<did>>, select(Store, did))
        /\ UNCHANGED <<disk, clock>>

AddCoins ==
    \E amt \in AmtInputs :
        /\ Call("add_coins", <<amt>>, add_coins(Store, amt))
        /\ UNCHANGED <<disk, clock>>

Buy ==
    \E b \in BuyInputs :
        /\ Call("buy", b, buy(Store, b[1], b[2]))
        /\ UNCHANGED <<disk, clock>>

UpgradeHabitat ==
    \E u \in UpgradeInputs :
        /\ Call("upgrade_habitat", u, upgrade_habitat(Store, u[1], u[2], u[3]))
        /\ UNCHANGED <<disk, clock>>

FeedSelected ==
    /\ Call("feed_selected", <<>>, feed_selected(Store))
    /\ UNCHANGED <<disk, clock>>

PetSelected ==
    /\ Call("pet_selected", <<>>, pet_selected(Store))
    /\ UNCHANGED <<disk, clock>>

MoveSelectedToHabitat ==
    \E hid \in HabInputs :
        /\ Call("move_selected_to_habitat", <<hid>>, move_selected_to_habitat(Store, hid))
        /\ UNCHANGED <<disk, clock>>

StartBreeding ==
    \E b \in StartInputs :
        /\ Call("start_breeding", b, start_breeding(Store, b[1], b[2], b[3]))
        /\ UNCHANGED <<disk, clock>>

BreedingTick ==
    /\ calls > 0
    /\ \E now \in 0..MaxNow :
          \E r \in breeding_tick(Store, clock, now) :
              /\ Call("breeding_tick", <<now>>, r)
              /\ clock' = r.clock
              /\ UNCHANGED disk

Load ==
    /\ Call("load", <<>>, load(Store, disk))
    /\ UNCHANGED <<disk, clock>>

Next ==
    \/ SeedStarters
    \/ Select
    \/ AddCoins
    \/ Buy
    \/ UpgradeHabitat
    \/ FeedSelected
    \/ PetSelected
    \/ MoveSelectedToHabitat
    \/ StartBreeding
    \/ BreedingTick
    \/ Load

Spec == Init /\ [][Next]_vars

\* Every command of the store and the load, without the tick.
NextQuiet ==
    \/ SeedStarters
    \/ Select
    \/ AddCoins
    \/ Buy
    \/ UpgradeHabitat
    \/ FeedSelected
    \/ PetSelected
    \/ MoveSelectedToHabitat
    \/ StartBreeding
    \/ Load

SpecQuiet == Init /\ [][NextQuiet]_vars

\* Breeding: the save file is absent or the document of a store that
\* seed_starters, the commands and the ticks reach.
BreedFiles == {Absent, Json(DocSeed), Json(DocQueued), Json(DocHatching)}

NextBreed ==
    \/ SeedStarters
    \/ Select
    \/ MoveSelectedToHabitat
    \/ StartBreeding
    \/ BreedingTick
    \/ Load

SpecBreed == InitWith(BreedFiles, MaxCalls) /\ [][NextBreed]_vars

\* The store is serialised and the document is loaded back into it.
RoundTrip ==
    /\ Call("from_dict", <<to_dict(Store)>>, from_dict(Store, to_dict(Store)))
    /\ UNCHANGED <<disk, clock>>

\* Breeding as in SpecBreed, with feeding, and the store sent through
\* to_dict and from_dict.
NextTrip ==
    \/ SeedStarters
    \/ Select
    \/ FeedSelected
    \/ MoveSelectedToHabitat
    \/ StartBreeding
    \/ BreedingTick
    \/ Load
    \/ RoundTrip

SpecTrip == InitWith(BreedFiles, MaxCalls) /\ [][NextTrip]_vars

\* Enclosures: a save file that loads; creatures are moved, enclosures
\* upgraded, jobs started and resolved.
PenFiles == {Json(DocSeed), Json(DocCrowded), Json(DocMessy)}

NextPens ==
    \/ SeedStarters
    \/ Select
    \/ UpgradeHabitat
    \/ MoveSelectedToHabitat
    \/ StartBreeding
    \/ BreedingTick
    \/ Load

SpecPens == InitWith(PenFiles, MaxCalls) /\ [][NextPens]_vars

\* Enclosure objects: one enclosure the constructor accepted, and calls of
\* its add, remove and upgrade.
PenOccupants == {<<>>, <<"d1">>, <<"d1", "d2">>, <<"d2", "d2">>, <<"d2", "d1", "d3">>}
Pens ==
    {r.val : r \in {p \in {Habitat("h1", "Grassland", 1, c, o, 0) :
                               c \in 0..3, o \in PenOccupants} : p.ok}}

InitPen ==
    /\ InitStore({Absent}, MaxCalls)
    /\ observers = <<>>
    /\ saving = Idle
    /\ temps = <<>>

\* the enclosure is put into the store's list
PenNew ==
    /\ habitats = <<>>
    /\ \E h \in Pens :
          Call("Habitat", <<h.capacity, h.occupants>>,
               Silent([Store EXCEPT !.habitats = <<h>>], "None"))
    /\ UNCHANGED <<disk, clock>>

PenCall(op, args, r) ==
    /\ habitats # <<>>
    /\ Call(op, <<1>> \o args, Silent([Store EXCEPT !.habitats[1] = r.h], r.ret))
    /\ UNCHANGED <<disk, clock>>

PenAdd == \E id \in {"d1", "d2", "d3"} : PenCall("Habitat.add", <<id>>, HabitatAdd(habitats[1], id))

PenRemove == \E id \in {"d1", "d2", "d3"} :
                 PenCall("Habitat.remove", <<id>>, HabitatRemove(habitats[1], id))

PenUpgrade == \E u \in {<<1, 1>>, <<-1, 1>>, <<-3, 1>>, <<1, -1>>, <<0, 0>>} :
                  PenCall("Habitat.upgrade", u, HabitatUpgrade(habitats[1], u[1], u[2]))

NextPen ==
    \/ PenNew
    \/ PenAdd
    \/ PenRemove
    \/ PenUpgrade

SpecPen == InitPen /\ [][NextPen]_vars

\* Moves between ticks: a game with two jobs due at different times, one
\* call more than elsewhere.
NextMove ==
    \/ Select
    \/ MoveSelectedToHabitat
    \/ BreedingTick
    \/ Load

SpecMove == InitWith({Json(DocStaggered)}, MaxCalls + 1) /\ [][NextMove]_vars

\* Coins: the commands that touch the balance, and the ticks.
CoinFiles == {Absent, Json(DocSeed), Json(DocHatching)}

NextCoins ==
    \/ SeedStarters
    \/ Select
    \/ AddCoins
    \/ Buy
    \/ UpgradeHabitat
    \/ FeedSelected
    \/ PetSelected
    \/ BreedingTick
    \/ Load

SpecCoins == InitWith(CoinFiles, MaxCalls) /\ [][NextCoins]_vars

\* --- Persistence.save, step by step ---
\* The file a reader finds when a write has not put the whole document
\* there yet: json.load raises on it.
PartialFile == [kind |-> "garbage", cut |-> TRUE]

StoreVars == <<coins, inventory, armadillos, habitats, breeding_queue, dex_colors,
               selected_id, meta>>

\* the temporary files without the one of the save call tag
WithoutTemp(fs, tag) == SelectSeq(fs, LAMBDA f : f.owner # tag)
\* the temporary files with the content of the one of the save call tag set
WriteTemp(fs, tag, content) ==
    [i \in 1..Len(fs) |-> IF fs[i].owner = tag THEN [fs[i] EXCEPT !.content = content]
                          ELSE fs[i]]
TempOf(fs, tag) == CHOOSE f \in SeqToSet(fs) : f.owner = tag

SaveStep(pc) ==
    /\ saving' = [saving EXCEPT !.pc = pc]
    /\ UNCHANGED <<StoreVars, clock, pre, last, observed, calls, observers, invoked>>

\* save(state) is entered: path = self._save_path(), payload = state.to_dict()
SaveBegin ==
    /\ calls > 0
    /\ saving = Idle
    /\ calls' = calls - 1
    /\ saving' = [pc |-> "create", tag |-> calls, payload |-> to_dict(Store),
                  prev |-> disk, named |-> FALSE]
    /\ UNCHANGED <<StoreVars, disk, temps, clock, pre, last, observed, observers,
                   invoked>>

\* NamedTemporaryFile(dir=directory, delete=False) creates an empty file
SaveCreate ==
    /\ saving.pc = "create"
    /\ temps' = Append(temps, [owner |-> saving.tag, content |-> PartialFile])
    /\ SaveStep("dump")
    /\ UNCHANGED disk

\* json.dump writing to the final path instead of the temporary file
SaveDumpInPlace ==
    /\ saving.pc = "dump"
    /\ disk' = PartialFile
    /\ SaveStep("dumping")
    /\ UNCHANGED temps

\* json.dump(payload, tmp) has written a part of the document
SaveDump ==
    /\ saving.pc = "dump"
    /\ temps' = WriteTemp(temps, saving.tag, PartialFile)
    /\ SaveStep("dumping")
    /\ UNCHANGED disk

\* json.dump(payload, tmp) has written the rest of the document
SaveDumpEnd ==
    /\ saving.pc = "dumping"
    /\ temps' = WriteTemp(temps, saving.tag, Json(saving.payload))
    /\ SaveStep("flush")
    /\ UNCHANGED disk

\* tmp.flush()
SaveFlush ==
    /\ saving.pc = "flush"
    /\ SaveStep("fsync")
    /\ UNCHANGED <<disk, temps>>

\* os.fsync(tmp.fileno()); temp_name = tmp.name; the with block closes tmp
SaveFsync ==
    /\ saving.pc = "fsync"
    /\ saving' = [saving EXCEPT !.pc = "replace", !.named = TRUE]
    /\ UNCHANGED <<StoreVars, disk, temps, clock, pre, last, observed, calls,
                   observers, invoked>>

SaveReturn(ret) ==
    /\ saving' = Idle
    /\ last' = [op |-> "save", args |-> <<saving.tag, saving.prev, Json(saving.payload)>>,
                ret |-> ret,
                newborns |-> <<>>, hatched |-> <<>>]
    /\ UNCHANGED <<StoreVars, clock, pre, observed, calls, observers, invoked>>

\* os.replace(temp_name, path); return True
SaveReplace ==
    /\ saving.pc = "replace"
    /\ disk' = TempOf(temps, saving.tag).content
    /\ temps' = WithoutTemp(temps, saving.tag)
    /\ SaveReturn("True")

\* A step of save raises: the handler removes the temporary file if
\* temp_name is bound and the file exists (os.remove may fail too, and the
\* handler passes), and save returns False.
SaveFail ==
    /\ saving.pc \in {"create", "dump", "dumping", "flush", "fsync", "replace"}
    /\ \E removed \in BOOLEAN :
          temps' = IF saving.named /\ removed THEN WithoutTemp(temps, saving.tag)
                   ELSE temps
    /\ SaveReturn("False")
    /\ UNCHANGED disk

\* The process is killed during save.
SaveKill ==
    /\ saving.pc \in {"create", "dump", "dumping", "flush", "fsync", "replace"}
    /\ saving' = [saving EXCEPT !.pc = "killed"]
    /\ calls' = 0
    /\ UNCHANGED <<StoreVars, disk, temps, clock, pre, last, observed, observers,
                   invoked>>

\* Another process calls Persistence.load on its own store.
ReaderLoad ==
    /\ last' = [op |-> "reader_load", args |-> <<disk>>,
                ret |-> load(NewGameState, disk).ret,
                newborns |-> <<>>, hatched |-> <<>>]
    /\ UNCHANGED <<StoreVars, disk, temps, clock, pre, observed, calls, observers,
                   invoked, saving>>

SaveFiles == {Absent, Json(DocSeed), Json(DocPlayed)}

NextSave ==
    \/ SeedStarters
    \/ AddCoins
    \/ SaveBegin
    \/ SaveCreate
    \/ SaveDump
    \/ SaveDumpEnd
    \/ SaveFlush
    \/ SaveFsync
    \/ SaveReplace
    \/ SaveFail
    \/ SaveKill
    \/ ReaderLoad

SpecSave == InitWith(SaveFiles, MaxCalls) /\ [][NextSave]_vars

\* Observers: a new store with some callbacks registered; callbacks are
\* added and notifying commands are called.
ObserverLists ==
    UNION {{q \in [1..n -> Callbacks] : \A i, j \in 1..n : q[i] = q[j] => i = j} :
             n \in 0..Cardinality(Callbacks)}

InitObs ==
    /\ InitStore({Absent}, MaxCalls)
    /\ observers \in ObserverLists
    /\ saving = Idle
    /\ temps = <<>>

AddObserver ==
    \E cb \in Callbacks :
        /\ Apply("add_observer", <<cb.name>>, Silent(Store, "None"))
        /\ observers' = add_observer(observers, cb)
        /\ UNCHANGED <<disk, clock, saving, temps>>

NextObs ==
    \/ AddObserver
    \/ SeedStarters
    \/ Select
    \/ AddCoins
    \/ Buy
    \/ PetSelected

SpecObs == InitObs /\ [][NextObs]_vars

\* Care: the selected creature is fed and petted; food is bought.
CareFiles == {Absent, Json(DocSeed), Json(DocCared), Json(DocPampered), Json(DocSpent)}

NextCare ==
    \/ SeedStarters
    \/ Select
    \/ Buy
    \/ FeedSelected
    \/ PetSelected
    \/ Load

SpecCare == InitWith(CareFiles, MaxCalls) /\ [][NextCare]_vars

\* Creature objects: one creature the constructor accepted, and calls of
\* its feed, pet and age_up, and of to_dict and from_dict.
CreatureArgs ==
    {<<sex, age, hunger, happiness, color>> :
        sex \in {"M", "F", "X"}, age \in {-1, 0, 13, 14}, hunger \in {-10, 70, 95},
        happiness \in {85, 150}, color \in {"Brown", "Albino"}}
Amounts == {-5, 0, 20, 120}
Days == {-1, 0, 1, 14}

\* Armadillo(...): an accepted creature is put into the store's list
CreatureNew ==
    /\ armadillos = <<>>
    /\ \E c \in CreatureArgs :
          LET r == Armadillo("d1", "Pebble", c[1], c[2], c[3], c[4],
                             [color |-> <<"A", "a">>], c[5])
          IN  Call("Armadillo", c,
                   Silent([Store EXCEPT !.armadillos = IF r.ok THEN <<r.val>> ELSE <<>>],
                          IF r.ok THEN "None" ELSE "raise"))
    /\ UNCHANGED <<disk, clock>>

CreatureCall(op, args, r) ==
    /\ armadillos # <<>>
    /\ Call(op, args, Silent([Store EXCEPT !.armadillos[1] = r.a], r.ret))
    /\ UNCHANGED <<disk, clock>>

CreatureFeed == \E a \in Amounts : CreatureCall("Armadillo.feed", <<a>>, feed(armadillos[1], a))

CreaturePet == \E a \in Amounts : CreatureCall("Armadillo.pet", <<a>>, pet(armadillos[1], a))

CreatureAgeUp == \E d \in Days : CreatureCall("Armadillo.age_up", <<d>>, age_up(armadillos[1], d))

\* Armadillo.from_dict(x.to_dict()) takes the place of x
CreatureRoundTrip ==
    CreatureCall("Armadillo.from_dict", <<{}>>, FromDictWithout(armadillos[1], {}))

\* Armadillo.from_dict of x.to_dict() without one of its keys
CreatureFromPartial ==
    \E k \in ArmadilloRequired \cup {"is_baby", "is_adult"} :
        CreatureCall("Armadillo.from_dict", <<{k}>>, FromDictWithout(armadillos[1], {k}))

NextCreature ==
    \/ CreatureNew
    \/ CreatureFeed
    \/ CreaturePet
    \/ CreatureAgeUp
    \/ CreatureRoundTrip
    \/ CreatureFromPartial

SpecCreature == InitWith({Absent}, MaxCalls) /\ [][NextCreature]_vars

\* Genetics: combine_genes is called with well-formed and malformed
\* genotypes and with chances inside and outside [0, 1]; each outcome of its
\* random choices is a result of the call. The function keeps no state, so
\* a behaviour holds one call.
Genotypes ==
    {<<p, q>> : p \in ALLOWED_ALLELES, q \in ALLOWED_ALLELES}
        \cup {<<"A">>, <<"A", "x">>, <<"A", "a", "B">>}
Chances == {-1, 0, HatchMutationChance, 100, 101}

CombineGenes ==
    \E gm \in Genotypes, gf \in Genotypes, mc \in Chances :
        LET results == combine_genes(gm, gf, mc)
        IN  /\ last.op = "init"
            /\ \E ret \in IF results = {} THEN {Raise} ELSE {Ok(r) : r \in results} :
                  Call("combine_genes", <<gm, gf, mc>>, Silent(Store, ret))
            /\ UNCHANGED <<disk, clock>>

NextGenes == CombineGenes

SpecGenes == InitWith({Absent}, MaxCalls) /\ [][NextGenes]_vars

\* Countdown: one job is constructed and its remaining and is_done are
\* called at times before its start, during the incubation, within the
\* last second and after the end.
TimerStarts == 0..MaxClock
TimerDurations == {1, 2}
TimerNows == 0..(MaxNow + Scale)

JobNew ==
    /\ breeding_queue = <<>>
    /\ \E st \in TimerStarts, dur \in TimerDurations, status \in ALLOWED_STATUS :
          LET r == BreedingJob("b1", "d1", "d2", st, dur, status, NoResult)
          IN  Call("BreedingJob", <<st, dur, status>>,
                   Silent([Store EXCEPT !.breeding_queue = <<r.val>>], "None"))
    /\ UNCHANGED <<disk, clock>>

JobRemaining ==
    /\ breeding_queue # <<>>
    /\ \E now \in TimerNows :
          Call("BreedingJob.remaining", <<now>>,
               Silent(Store, remaining(breeding_queue[1], now)))
    /\ UNCHANGED <<disk, clock>>

JobIsDone ==
    /\ breeding_queue # <<>>
    /\ \E now \in TimerNows :
          Call("BreedingJob.is_done", <<now>>,
               Silent(Store, is_done(breeding_queue[1], now)))
    /\ UNCHANGED <<disk, clock>>

NextTimer ==
    \/ JobNew
    \/ JobRemaining
    \/ JobIsDone

SpecTimer == InitWith({Absent}, MaxCalls) /\ [][NextTimer]_vars

\* ------------------------------------------------------------------ main.py
\* Persistence.save and Persistence.load are looked up on the class, so the
\* first positional argument of a call takes the place of self. An
\* argument is given by the type of the object passed. A call with the
\* wrong number of arguments raises TypeError before the body runs; inside
\* the body every Exception (a str has no _save_path, a dict has no
\* to_dict) is caught and False is returned.
PersistenceSaveCall(args, s, file) ==
    IF Len(args) # 2 THEN [ret |-> "TypeError", disk |-> file]
    ELSE IF args[1] # "Persistence" THEN [ret |-> "False", disk |-> file]
    ELSE IF args[2] # "GameState" THEN [ret |-> "False", disk |-> file]
    ELSE [ret |-> "True", disk |-> Json(to_dict(s))]

PersistenceLoadCall(args, s, file) ==
    IF Len(args) # 2 THEN Silent(s, "TypeError")
    ELSE IF args[1] # "Persistence" THEN Silent(s, "False")
    ELSE IF args[2] # "GameState" THEN Silent(s, "False")
    ELSE load(s, file)

\* try: f(first) except TypeError: try: f(second) ...: the first argument
\* list of the right length is the call whose body runs; if there is none
\* the last call's TypeError is what remains.
FirstAccepted(tries) ==
    LET fits == {i \in 1..Len(tries) : Len(tries[i]) = 2}
    IN  IF fits = {} THEN tries[Len(tries)]
        ELSE tries[CHOOSE i \in fits : \A j \in fits : i <= j]

\* ArmadilloApp._save: the file at the save path after the call
_save(s, file) ==
    PersistenceSaveCall(FirstAccepted(<< <<"str", "dict">>, <<"str", "GameState">>,
                                         <<"GameState">> >>),
                        s, file).disk

\* ArmadilloApp._load_or_seed: the store, the file at the save path and the
\* store seen by the observers after the call. No loader returns a dict.
_load_or_seed(s, file) ==
    LET r == PersistenceLoadCall(FirstAccepted(<< <<"str">>, <<"str", "GameState">>,
                                                  <<"GameState">> >>),
                                 s, file)
    IN  IF r.ret = "True"
        THEN [s |-> [r.s EXCEPT !.meta = DictSet(@, "first_run", FALSE)],
              disk |-> file, seen |-> r.seen]
        ELSE LET seeded == seed_starters(r.s)
                 s1 == [seeded.s EXCEPT !.meta = DictSet(@, "first_run", TRUE)]
             IN  [s |-> s1, disk |-> _save(s1, file), seen |-> seeded.seen]

\* The application: build() runs _load_or_seed on the new store before
\* anything else, then the player's commands and the save hook (autosave
\* trigger, on_pause, on_stop) follow in any order.
AppFiles == {Absent, Garbage, Json(DocSeed), Json(DocPlayed)}

AppLoadOrSeed ==
    /\ last.op = "init"
    /\ LET r == _load_or_seed(Store, disk)
       IN  /\ Call("_load_or_seed", <<disk>>, Result(r.s, "None", r.seen))
           /\ disk' = r.disk
    /\ UNCHANGED clock

AppSave ==
    /\ last.op # "init"
    /\ Call("_save", <<>>, Silent(Store, "None"))
    /\ disk' = _save(Store, disk)
    /\ UNCHANGED clock

AppSelect == last.op # "init" /\ Select

AppAddCoins == last.op # "init" /\ AddCoins

AppBuy == last.op # "init" /\ Buy

NextApp ==
    \/ AppLoadOrSeed
    \/ AppSelect
    \/ AppAddCoins
    \/ AppBuy
    \/ AppSave

SpecApp == InitWith(AppFiles, MaxCalls) /\ [][NextApp]_vars

\* Job ids: a seeded game, or one with two jobs queued that are due at
\* different times, followed by start_breeding and breeding_tick calls.
NextIds ==
    \/ StartBreeding
    \/ BreedingTick
    \/ Load

SpecIds == InitWith({Json(DocSeed), Json(DocStaggered)}, MaxCalls) /\ [][NextIds]_vars

\* The dex: a seeded game or a game of two creatures whose dex lacks Blue,
\* with breeding, ticks, a purchase and the store sent through to_dict and
\* from_dict.
NextDex ==
    \/ SeedStarters
    \/ Buy
    \/ StartBreeding
    \/ BreedingTick
    \/ Load
    \/ RoundTrip

SpecDex == InitWith({Json(DocSeed), Json(DocPair)}, MaxCalls) /\ [][NextDex]_vars

\* Orphaned jobs: the save file holds a job whose mother is not among the
\* document's creatures.
NextOrphans ==
    \/ Select
    \/ StartBreeding
    \/ BreedingTick
    \/ Load

SpecOrphans == InitWith({Json(DocOrphaned)}, MaxCalls) /\ [][NextOrphans]_vars

\* Hatching into a roomy enclosure: two jobs of one mother, due at
\* different times, and her enclosure has room for both newborns.
NextRoomy ==
    \/ Select
    \/ MoveSelectedToHabitat
    \/ BreedingTick
    \/ Load

SpecRoomy == InitWith({Json(DocRoomy)}, MaxCalls) /\ [][NextRoomy]_vars

\* Notification: a new store with some callbacks registered, and every
\* command that notifies.
NextNotify ==
    \/ AddObserver
    \/ SeedStarters
    \/ Select
    \/ AddCoins
    \/ Buy
    \/ UpgradeHabitat
    \/ FeedSelected
    \/ PetSelected
    \/ MoveSelectedToHabitat
    \/ StartBreeding
    \/ RoundTrip

SpecNotify == InitObs /\ [][NextNotify]_vars

\* Ticks under observation: a queued or a ripe job in the save file, no
\* callback or three callbacks registered.
TickObservers ==
    {<<>>, <<[name |-> "topbar", raises |-> FALSE], [name |-> "broken", raises |-> TRUE],
             [name |-> "screen", raises |-> FALSE]>>}

InitWatched ==
    /\ InitStore({Json(DocQueued), Json(DocHatching)}, MaxCalls)
    /\ observers \in TickObservers
    /\ saving = Idle
    /\ temps = <<>>

NextWatched ==
    \/ StartBreeding
    \/ BreedingTick
    \/ Load

SpecWatched == InitWatched /\ [][NextWatched]_vars

\* ------------------------------------------------------------------ claims
Ids(seq) == {seq[i].id : i \in 1..Len(seq)}
Occupants(habs) == [k \in 1..Len(habs) |-> habs[k].occupants]
Arg(k) == last.args[k]

\* the target of a move exists and holds as many occupants as its capacity
TargetFull(s, hid) ==
    /\ IndexOf(s.habitats, hid) # 0
    /\ Len(s.habitats[IndexOf(s.habitats, hid)].occupants)
         = s.habitats[IndexOf(s.habitats, hid)].capacity

\* C1: move_selected_to_habitat(hid) called when the target enclosure's
\* occupant count equals its capacity returns failure and leaves the
\* occupant list of every enclosure as it was before the call, whether or
\* not the selected creature already occupies the target.
C1_MoveIntoFullRejected ==
    (last.op = "move_selected_to_habitat" /\ TargetFull(pre, Arg(1)))
        => /\ last.ret = "False"
           /\ Occupants(habitats) = Occupants(pre.habitats)

\* C2: a Persistence.load that returns False leaves every field of the
\* in-memory store equal to its value before the call.
C2_FailedLoadLeavesStore ==
    (last.op = "load" /\ last.ret = "False") => Store = pre

\* C3: a breeding job is never resolved early: breeding_tick(now) completes
\* a job only if now >= start_ts + duration_s, start_ts being the job's
\* start timestamp at the moment of the check, for fractional tick times as
\* for whole seconds.
C3_NeverResolvedEarly ==
    last.op = "breeding_tick"
        => \A k \in 1..Len(last.hatched) :
              Arg(1) >= last.hatched[k].job.start_ts
                          + last.hatched[k].job.duration_s * Scale

\* the job's parents are in the creature collection and now - start_ts
\* has reached duration_s
Due(s, job, now) ==
    /\ IndexOf(s.armadillos, job.parent_m_id) # 0
    /\ IndexOf(s.armadillos, job.parent_f_id) # 0
    /\ now - job.start_ts >= job.duration_s * Scale
\* the job as the loop of the tick holds it
Started(job, now) == IF job.start_ts = 0 THEN [job EXCEPT !.start_ts = now] ELSE job
\* the last tick took the job at position i of the queue out of the queue
\* and appended one newborn for it, of age 0 with hunger and happiness 60
\* and a phenotype the dex holds
HatchedAt(i) ==
    LET ks == {k \in 1..Len(last.hatched) : last.hatched[k].pos = i}
    IN  /\ \A q \in 1..Len(breeding_queue) :
              breeding_queue[q] # Started(pre.breeding_queue[i], Arg(1))
        /\ Cardinality(ks) = 1
        /\ Len(armadillos) = Len(pre.armadillos) + Len(last.hatched)
        /\ \A k \in ks :
              LET baby == armadillos[Len(pre.armadillos) + k]
              IN  /\ baby.age_days = 0
                  /\ baby.hunger = NewbornStat
                  /\ baby.happiness = NewbornStat
                  /\ baby.color \in dex_colors

C5_CreatureIdsUnique ==
    \A i, j \in 1..Len(armadillos) :
        armadillos[i].id = armadillos[j].id => i = j

Rejecting == {"buy", "upgrade_habitat", "feed_selected", "pet_selected",
              "start_breeding"}

\* C6: whenever buy, upgrade_habitat, feed_selected, pet_selected or
\* start_breeding reports that it could not perform the action (False or
\* None), every field of the store equals its value before the call and no
\* observer is notified.
C6_RejectionLeavesStore ==
    (last.op \in Rejecting /\ last.ret \in {"False", "None"})
        => (Store = pre /\ observed = <<>>)

C6_Rejected ==
    /\ last.op \in Rejecting
    /\ last.ret \in {"False", "None"}
    /\ pre.coins >= COST_HABITAT_UPGRADE
    /\ pre.armadillos # <<>>

\* the store after a purchase: cost fewer coins and one more of the item
Bought(s, item, cost) ==
    [s EXCEPT !.coins = s.coins - cost,
              !.inventory = [k \in DOMAIN s.inventory \cup {item} |->
                               IF k # item THEN s.inventory[k]
                               ELSE IF item \in DOMAIN s.inventory
                                    THEN s.inventory[item] + 1 ELSE 1]]

\* C7: buy(item, cost) returns false with no mutation if coins < cost or
\* cost is negative; otherwise it returns true, coins decrease by exactly
\* cost and the count of item increases by exactly 1 (a missing item counts
\* as 0), all other inventory entries unchanged.
C7_BuyFalseOrBought ==
    last.op = "buy"
        => IF pre.coins < Arg(2) \/ Arg(2) < 0
           THEN last.ret = "False" /\ Store = pre
           ELSE last.ret = "True" /\ Store = Bought(pre, Arg(1), Arg(2))

\* C7, amended: buy(item, cost) raises with no mutation if cost is
\* negative, returns false with no mutation if 0 <= cost and coins < cost,
\* and otherwise returns true with the store changed as stated.
C7_BuyRaisesFalseOrBought ==
    last.op = "buy"
        => IF Arg(2) < 0 THEN last.ret = "raise" /\ Store = pre
           ELSE IF pre.coins < Arg(2) THEN last.ret = "False" /\ Store = pre
           ELSE last.ret = "True" /\ Store = Bought(pre, Arg(1), Arg(2))

C7_NegativeCost ==
    /\ last.op = "buy"
    /\ Arg(2) < 0
    /\ last.ret = "raise"
    /\ pre.coins > 0
    /\ pre.inventory # EmptyDict

\* the document lists, for some enclosure, more distinct occupant ids than
\* the enclosure's capacity, and is otherwise the document of a store
IsDictOf(d, required) == required \subseteq DOMAIN d
Overfull(h) ==
    /\ IsDictOf(h, HabitatRequired \cup {"occupants"})
    /\ Cardinality(SeqToSet(h.occupants)) > h.capacity
OverfullDoc(d) ==
    /\ \A i \in 1..Len(d.armadillos) : IsDictOf(d.armadillos[i], ArmadilloRequired)
    /\ \A i \in 1..Len(d.habitats) : IsDictOf(d.habitats[i], HabitatRequired \cup {"occupants"})
    /\ \A i \in 1..Len(d.breeding_queue) : IsDictOf(d.breeding_queue[i], JobRequired)
    /\ \E i \in 1..Len(d.habitats) : Overfull(d.habitats[i])
\* the document's occupant list without the ids of creatures that are not
\* in the document, cut to the capacity
Truncated(d, h) ==
    LET known == Dedup(SelectSeq(h.occupants, LAMBDA x : x \in Ids(d.armadillos)), <<>>)
    IN  SubSeq(known, 1, Min(Len(known), h.capacity))

\* C8: loading a document in which an enclosure lists more distinct
\* occupant ids than its capacity succeeds, and the loaded occupant list is
\* the document's list (without the ids of creatures not in the document)
\* truncated to the capacity.
C8_OverfullLoadTruncates ==
    (last.op = "load" /\ disk.kind = "json" /\ OverfullDoc(disk.doc))
        => /\ last.ret = "True"
           /\ Len(habitats) = Len(disk.doc.habitats)
           /\ \A k \in 1..Len(habitats) :
                 habitats[k].occupants = Truncated(disk.doc, disk.doc.habitats[k])

\* C9: after every from_dict call that completes, every occupant id of
\* every enclosure is the id of a loaded creature, occupant ids within an
\* enclosure are unique, and the selected id is none or the id of a loaded
\* creature.
C9_LoadedReferencesValid ==
    (last.op = "load" /\ last.ret = "True")
        => /\ \A k \in 1..Len(habitats) :
                 /\ SeqToSet(habitats[k].occupants) \subseteq Ids(armadillos)
                 /\ Cardinality(SeqToSet(habitats[k].occupants))
                      = Len(habitats[k].occupants)
           /\ selected_id = None \/ selected_id \in Ids(armadillos)

\* a document with unknown and repeated occupant ids and an unknown
\* selection was loaded
C9_LoadedMessy ==
    /\ last.op = "load"
    /\ last.ret = "True"
    /\ disk.doc.selected_id \notin Ids(armadillos) \cup {None}
    /\ \E k \in 1..Len(disk.doc.habitats) :
          /\ ~(SeqToSet(disk.doc.habitats[k].occupants) \subseteq Ids(armadillos))
          /\ Cardinality(SeqToSet(disk.doc.habitats[k].occupants))
               < Len(disk.doc.habitats[k].occupants)

\* C10: in every reachable state the selected id is none or the id of a
\* creature in the collection, and select(id) with an id not among the
\* creatures is rejected and leaves the selection unchanged.
C10_SelectionValid ==
    /\ selected_id = None \/ selected_id \in Ids(armadillos)
    /\ (last.op = "select" /\ Arg(1) # None /\ Arg(1) \notin Ids(pre.armadillos))
          => (last.ret = "raise" /\ selected_id = pre.selected_id)

\* C17: if a registered observer raises during a notification pass, every
\* other registered observer is still invoked in that pass, the triggering
\* mutation stays applied, and the mutating call returns its normal result
\* (the exception is an Exception, which _notify catches).
C17_ObserverFailureIsolated ==
    (observed # <<>> /\ \E i \in 1..Len(observers) : observers[i].raises)
        => /\ invoked = [i \in 1..Len(observers) |-> observers[i].name]
           /\ last.ret # "raise"
           /\ Store = observed[1]

\* a pass over three observers of which the first raises
C17_FirstObserverRaised ==
    /\ observed # <<>>
    /\ last.op = "buy"
    /\ Store # pre
    /\ Len(observers) = 3
    /\ observers[1].raises
    /\ Len(invoked) = 3

\* the save call tag left a temporary file in the save directory
LeftTemp(tag) == \E i \in 1..Len(temps) : temps[i].owner = tag

\* C11: whenever Persistence.save returns False, no temporary file created
\* by that call remains in the save directory, whichever step failed.
C11_FailedSaveLeavesNoTemp ==
    (last.op = "save" /\ last.ret = "False") => ~LeftTemp(Arg(1))

\* C12: while a save runs, after it failed and after it was interrupted,
\* the content at the final path is the complete previous document or the
\* complete new document, and that is what a reader of the path finds.
C12_FinalPathNeverPartial ==
    /\ saving # Idle
          => /\ disk \in {saving.prev, Json(saving.payload)}
             /\ last.op = "reader_load"
                   => Arg(1) \in {saving.prev, Json(saving.payload)}
    /\ (last.op = "save" /\ last.ret = "False") => disk = Arg(2)
    /\ (last.op = "save" /\ last.ret = "True") => disk = Arg(3)

\* a reader read the path while the temporary file held a part of the new
\* document
C12_ReadDuringDump ==
    /\ saving # Idle
    /\ saving.pc = "dumping"
    /\ last.op = "reader_load"
    /\ Json(saving.payload) # saving.prev
    /\ TempOf(temps, saving.tag).content = PartialFile

\* C13: for every store state reachable from seed_starters by store
\* commands and ticks, loading to_dict of it with from_dict yields a store
\* equal to it attribute for attribute.
C13_RoundTrip ==
    last.op = "from_dict" => (last.ret = "None" /\ Store = pre)

\* a store with a newborn, an occupied enclosure, a selection and a tick
\* time went through the round trip
C13_PlayedRoundTrip ==
    /\ last.op = "from_dict"
    /\ Len(pre.armadillos) > 3
    /\ pre.selected_id # None
    /\ pre.meta.now_ts.tag = "float"
    /\ \E k \in 1..Len(pre.habitats) : Len(pre.habitats[k].occupants) > 1

\* C14: in every state reachable from seed_starters by
\* move_selected_to_habitat, upgrade_habitat, start_breeding, breeding_tick,
\* select and successful from_dict calls, every enclosure has at most
\* capacity occupants and no id twice in its occupant list.
C14_PensWithinCapacity ==
    \A k \in 1..Len(habitats) :
        /\ Len(habitats[k].occupants) <= habitats[k].capacity
        /\ Cardinality(SeqToSet(habitats[k].occupants)) = Len(habitats[k].occupants)

\* a job hatched while its mother's enclosure was full
C14_HatchedIntoFullPen ==
    /\ last.op = "breeding_tick"
    /\ Len(last.newborns) = 1
    /\ \E k \in 1..Len(pre.habitats) :
          /\ last.hatched[1].job.parent_f_id \in SeqToSet(pre.habitats[k].occupants)
          /\ Len(pre.habitats[k].occupants) = pre.habitats[k].capacity
          /\ habitats[k] = pre.habitats[k]

\* the enclosure has room and does not hold the id
CanAdd(h, id) == Len(h.occupants) < h.capacity /\ id \notin SeqToSet(h.occupants)

\* C15: after any sequence of add, remove and upgrade calls on an
\* enclosure, occupant count <= capacity and occupant ids are unique;
\* add(id) returns true and appends id at the end iff there was space and
\* id was not present, and otherwise changes nothing; remove of an absent
\* id changes nothing.
C15_EnclosureCalls ==
    /\ \A k \in 1..Len(habitats) :
          /\ Len(habitats[k].occupants) <= habitats[k].capacity
          /\ Cardinality(SeqToSet(habitats[k].occupants)) = Len(habitats[k].occupants)
    /\ last.op = "Habitat.add"
          => IF CanAdd(pre.habitats[1], Arg(2))
             THEN /\ last.ret = "True"
                  /\ habitats[1] = [pre.habitats[1] EXCEPT
                                       !.occupants = Append(@, Arg(2))]
             ELSE last.ret = "False" /\ habitats = pre.habitats
    /\ (last.op = "Habitat.remove" /\ Arg(2) \notin SeqToSet(pre.habitats[1].occupants))
          => habitats = pre.habitats

\* add of an id the enclosure does not hold was refused because the
\* enclosure was full, as the second call on the enclosure
C15_AddRefusedWhenFull ==
    /\ last.op = "Habitat.add"
    /\ last.ret = "False"
    /\ Arg(2) \notin SeqToSet(pre.habitats[1].occupants)
    /\ Len(pre.habitats[1].occupants) = pre.habitats[1].capacity
    /\ pre.habitats[1].capacity > 1
    /\ calls = 0

\* the enclosures that list the id
HomesOf(habs, id) == {k \in 1..Len(habs) : id \in SeqToSet(habs[k].occupants)}

\* C16: a successful move_selected_to_habitat into a non-full enclosure
\* removes the selected creature's id from the enclosure that held it and
\* appends it to the target, leaving all other occupants and their order
\* unchanged; and in every state reachable from seed_starters by store
\* commands and ticks each creature id is in the occupant list of at most
\* one enclosure.
C16_MovedAndSingleHome ==
    /\ (/\ last.op = "move_selected_to_habitat"
        /\ last.ret = "True"
        /\ ~TargetFull(pre, Arg(1)))
          => \A k \in 1..Len(habitats) :
                habitats[k].occupants =
                    IF k = IndexOf(pre.habitats, Arg(1))
                    THEN Append(Without(pre.habitats[k].occupants, pre.selected_id),
                                pre.selected_id)
                    ELSE Without(pre.habitats[k].occupants, pre.selected_id)
    /\ \A i \in 1..Len(armadillos) :
          Cardinality(HomesOf(habitats, armadillos[i].id)) <= 1

\* C18: in every state reachable from seed_starters by add_coins (any
\* integer), buy, upgrade_habitat, feed_selected, pet_selected and ticks the
\* coin balance is >= 0, and add_coins(amt) sets coins to
\* max(0, coins + amt).
C18_CoinsNeverNegative ==
    /\ coins >= 0
    /\ last.op = "add_coins"
          => /\ last.ret = "None"
             /\ Store = [pre EXCEPT !.coins = IF pre.coins + Arg(1) > 0
                                             THEN pre.coins + Arg(1) ELSE 0]

\* add_coins took more coins than the store held
C18_FlooredAtZero ==
    /\ last.op = "add_coins"
    /\ pre.coins > 0
    /\ pre.coins + Arg(1) < 0
    /\ coins = 0

\* C19: seed_starters called from any store state produces the canonical
\* new-game state: coins 100, inventory exactly {food: 3, toy: 1}, exactly
\* 3 adult creatures with phenotypes Brown, Albino and Blue, dex exactly
\* {Brown, Albino, Blue}, exactly 3 empty enclosures with capacity 2 and
\* level 1, an empty breeding queue and no selection.
C19_SeedIsCanonical ==
    last.op = "seed_starters"
        => /\ coins = 100
           /\ DOMAIN inventory = {"food", "toy"}
           /\ inventory["food"] = 3
           /\ inventory["toy"] = 1
           /\ Len(armadillos) = 3
           /\ \A i \in 1..Len(armadillos) :
                 armadillos[i].is_adult /\ armadillos[i].age_days >= 14
           /\ {armadillos[i].color : i \in 1..Len(armadillos)} = {"Brown", "Albino", "Blue"}
           /\ dex_colors = {"Brown", "Albino", "Blue"}
           /\ Len(habitats) = 3
           /\ \A k \in 1..Len(habitats) :
                 /\ habitats[k].occupants = <<>>
                 /\ habitats[k].capacity = 2
                 /\ habitats[k].level = 1
           /\ breeding_queue = <<>>
           /\ selected_id = None

\* seed_starters was called on a game in progress
C19_SeededOverGame ==
    /\ last.op = "seed_starters"
    /\ pre.coins # 100
    /\ pre.selected_id # None
    /\ pre.breeding_queue # <<>>
    /\ \E k \in 1..Len(pre.habitats) : pre.habitats[k].occupants # <<>>

\* C20: upgrade_habitat(id, cost, capacity_delta) fails without mutation if
\* the enclosure is unknown, cost is negative, capacity_delta <= 0 or
\* coins < cost; otherwise coins decrease by exactly cost, that enclosure's
\* capacity increases by capacity_delta and its level by 1, and its
\* occupants and all other enclosures are unchanged.
C20_UpgradeHabitat ==
    last.op = "upgrade_habitat"
        => IF \/ Arg(1) \notin Ids(pre.habitats)
              \/ Arg(2) < 0
              \/ Arg(3) <= 0
              \/ pre.coins < Arg(2)
           THEN last.ret = "False" /\ Store = pre
           ELSE /\ last.ret = "True"
                /\ Store = [pre EXCEPT
                      !.coins = pre.coins - Arg(2),
                      !.habitats[IndexOf(pre.habitats, Arg(1))].capacity = @ + Arg(3),
                      !.habitats[IndexOf(pre.habitats, Arg(1))].level = @ + 1]

\* an occupied enclosure was upgraded
C20_UpgradedOccupied ==
    /\ last.op = "upgrade_habitat"
    /\ last.ret = "True"
    /\ pre.habitats[IndexOf(pre.habitats, Arg(1))].occupants # <<>>
    /\ coins < pre.coins

\* a creature is selected: the selected id is the id of a creature
HasSelected(s) == s.selected_id # None /\ s.selected_id \in Ids(s.armadillos)
\* the first creature with the selected id
SelectedIn(s) == IndexOf(s.armadillos, s.selected_id)
FoodOf(s) == IF "food" \in DOMAIN s.inventory THEN s.inventory["food"] ELSE 0
\* the coins a care action pays for a creature with these meters
CareBonus(hunger, happiness) == IF hunger > 80 /\ happiness > 80 THEN 3 ELSE 0
UpTo100(n) == IF n > 100 THEN 100 ELSE n

\* C21: feed_selected succeeds iff a creature is selected and the food count
\* is > 0, and then raises the selected creature's hunger by 20 clamped to
\* 100 and lowers the food count by exactly 1; pet_selected succeeds iff a
\* creature is selected and raises its happiness by 15 clamped to 100; after
\* either success coins increase by 3 iff the creature's hunger > 80 and
\* happiness > 80 in the post-state, and by 0 otherwise; no other creature
\* and no other field changes.
C21_CareActions ==
    /\ last.op = "feed_selected"
          => IF HasSelected(pre) /\ FoodOf(pre) > 0
             THEN LET i == SelectedIn(pre)
                      h == UpTo100(pre.armadillos[i].hunger + 20)
                  IN  /\ last.ret = "True"
                      /\ Store = [pre EXCEPT
                            !.armadillos[i].hunger = h,
                            !.inventory["food"] = @ - 1,
                            !.coins = @ + CareBonus(h, pre.armadillos[i].happiness)]
             ELSE last.ret = "False"
    /\ last.op = "pet_selected"
          => IF HasSelected(pre)
             THEN LET i == SelectedIn(pre)
                      h == UpTo100(pre.armadillos[i].happiness + 15)
                  IN  /\ last.ret = "True"
                      /\ Store = [pre EXCEPT
                            !.armadillos[i].happiness = h,
                            !.coins = @ + CareBonus(pre.armadillos[i].hunger, h)]
             ELSE last.ret = "False"

\* a feed that reached the clamp at 100 and earned the reward, with other
\* creatures in the collection
C21_FedToFullRewarded ==
    /\ last.op = "feed_selected"
    /\ last.ret = "True"
    /\ pre.armadillos[SelectedIn(pre)].hunger > 80
    /\ armadillos[SelectedIn(pre)].hunger = 100
    /\ coins = pre.coins + 3
    /\ Len(armadillos) = 3

\* the first creature of s with the id, for an id some creature has
Creature(s, id) == s.armadillos[IndexOf(s.armadillos, id)]
\* the two ids differ and identify an adult male and an adult female
CanBreed(s, male_id, female_id) ==
    /\ male_id # female_id
    /\ male_id \in Ids(s.armadillos)
    /\ female_id \in Ids(s.armadillos)
    /\ Creature(s, male_id).sex = "M"
    /\ Creature(s, female_id).sex = "F"
    /\ Creature(s, male_id).age_days >= 14
    /\ Creature(s, female_id).age_days >= 14

\* C22: start_breeding(male_id, female_id, duration) appends exactly one
\* incubating job iff the two ids differ, both identify existing creatures,
\* the first is male, the second is female and both are adult
\* (age_days >= 14); otherwise it returns nothing and the queue is
\* unchanged; the appended job's duration is the given duration if it is
\* >= 1 and 30 otherwise.
C22_StartBreeding ==
    last.op = "start_breeding"
        => IF CanBreed(pre, Arg(1), Arg(2))
           THEN /\ last.ret = "job"
                /\ Len(breeding_queue) = Len(pre.breeding_queue) + 1
                /\ SubSeq(breeding_queue, 1, Len(pre.breeding_queue)) = pre.breeding_queue
                /\ LET job == breeding_queue[Len(breeding_queue)]
                   IN  /\ job.status = "incubating"
                       /\ job.parent_m_id = Arg(1)
                       /\ job.parent_f_id = Arg(2)
                       /\ job.duration_s = IF Arg(3) >= 1 THEN Arg(3) ELSE 30
           ELSE last.ret = "None" /\ breeding_queue = pre.breeding_queue

\* start_breeding was refused only because the male is not adult
C22_BabyRefused ==
    /\ last.op = "start_breeding"
    /\ last.ret = "None"
    /\ Arg(1) # Arg(2)
    /\ Arg(1) \in Ids(pre.armadillos)
    /\ Arg(2) \in Ids(pre.armadillos)
    /\ Creature(pre, Arg(1)).sex = "M"
    /\ Creature(pre, Arg(2)).sex = "F"
    /\ Creature(pre, Arg(1)).age_days < 14
    /\ Creature(pre, Arg(2)).age_days >= 14

\* C23: for every creature and every sequence of feed(a) and pet(a) calls,
\* hunger and happiness stay within [0,100]; a call with a negative amount
\* is rejected and leaves hunger and happiness unchanged.
C23_MetersInRange ==
    /\ \A i \in 1..Len(armadillos) :
          /\ 0 <= armadillos[i].hunger /\ armadillos[i].hunger <= 100
          /\ 0 <= armadillos[i].happiness /\ armadillos[i].happiness <= 100
    /\ (last.op \in {"Armadillo.feed", "Armadillo.pet"} /\ Arg(1) < 0)
          => /\ last.ret = "raise"
             /\ armadillos[1].hunger = pre.armadillos[1].hunger
             /\ armadillos[1].happiness = pre.armadillos[1].happiness

\* a creature was fed more than its hunger meter had room for
C23_FedPastTop ==
    /\ last.op = "Armadillo.feed"
    /\ last.ret = "None"
    /\ pre.armadillos[1].hunger + Arg(1) > 100
    /\ armadillos[1].hunger = 100

\* C24: for every creature, after construction and after any sequence of
\* age_up(d) calls with d >= 0, is_adult holds iff age_days >= 14 and is_baby
\* is the negation of is_adult; age_up with negative d is rejected and
\* leaves age_days and both flags unchanged.
C24_LifeStage ==
    /\ \A i \in 1..Len(armadillos) :
          /\ armadillos[i].is_adult <=> armadillos[i].age_days >= 14
          /\ armadillos[i].is_baby <=> ~armadillos[i].is_adult
    /\ (last.op = "Armadillo.age_up" /\ Arg(1) < 0)
          => /\ last.ret = "raise"
             /\ armadillos[1].age_days = pre.armadillos[1].age_days
             /\ armadillos[1].is_adult = pre.armadillos[1].is_adult
             /\ armadillos[1].is_baby = pre.armadillos[1].is_baby

\* a baby of 13 days aged by one day
C24_GrewUp ==
    /\ last.op = "Armadillo.age_up"
    /\ Arg(1) = 1
    /\ pre.armadillos[1].is_baby
    /\ armadillos[1].is_adult

\* C25: for every valid creature x (including one reached by feed, pet and
\* age_up calls), Creature.from_dict(Creature.to_dict(x)) equals x in every
\* attribute including the life-stage flags; from_dict of a record missing
\* any required key is rejected.
C25_CreatureRoundTrip ==
    last.op = "Armadillo.from_dict"
        => /\ Arg(1) = {} => (last.ret = "None" /\ armadillos[1] = pre.armadillos[1])
           /\ Arg(1) \cap {"id", "name", "sex", "age_days", "hunger", "happiness",
                           "genes", "color"} # {} => last.ret = "raise"

\* an albino creature built with hunger below 0 and aged into an adult went
\* through the round trip
C25_GrownRoundTrip ==
    /\ last.op = "Armadillo.from_dict"
    /\ Arg(1) = {}
    /\ last.ret = "None"
    /\ armadillos[1].color = "Albino"
    /\ armadillos[1].hunger = 0
    /\ armadillos[1].age_days = 27
    /\ armadillos[1].is_adult

\* C26: Enclosure.upgrade(capacity_delta, level_delta) is rejected whenever
\* the resulting capacity would be below the current occupant count, the
\* resulting capacity would be negative, or the resulting level would be
\* below 1, and after a rejection level, capacity and occupants are all
\* unchanged.
C26_UpgradeRejected ==
    last.op = "Habitat.upgrade"
        => /\ (\/ pre.habitats[1].capacity + Arg(2) < Len(pre.habitats[1].occupants)
               \/ pre.habitats[1].capacity + Arg(2) < 0
               \/ pre.habitats[1].level + Arg(3) < 1) => last.ret = "raise"
           /\ last.ret = "raise"
                 => /\ habitats[1].level = pre.habitats[1].level
                    /\ habitats[1].capacity = pre.habitats[1].capacity
                    /\ habitats[1].occupants = pre.habitats[1].occupants

\* an upgrade was rejected only because the capacity would have dropped
\* below the occupant count
C26_ShrinkBelowOccupants ==
    /\ last.op = "Habitat.upgrade"
    /\ last.ret = "raise"
    /\ pre.habitats[1].capacity + Arg(2) >= 0
    /\ pre.habitats[1].level + Arg(3) >= 1
    /\ pre.habitats[1].capacity + Arg(2) < Len(pre.habitats[1].occupants)

\* a 2-character genotype over {A, a, B}
WellFormed(g) == Len(g) = 2 /\ \A i \in 1..Len(g) : g[i] \in {"A", "a", "B"}

\* C27: for every pair of valid 2-character parent genotypes over {A,a,B}
\* and every outcome of the random choices, combine_genes returns a
\* 2-character genotype over {A,a,B} whose first character is an allele of
\* the male genotype or a mutated B and whose second character is an allele
\* of the female genotype or a mutated B (at most one character mutated),
\* and the phenotype is Blue if the genotype contains B, else Brown if it
\* contains A, else Albino; malformed genotypes and mutation_chance outside
\* [0,1] are rejected.
C27_CombineGenes ==
    last.op = "combine_genes"
        => IF WellFormed(Arg(1)) /\ WellFormed(Arg(2)) /\ 0 <= Arg(3) /\ Arg(3) <= 100
           THEN /\ last.ret.ok
                /\ LET g == last.ret.val[1]
                       phenotype == last.ret.val[2]
                       first_mutated == g[1] \notin SeqToSet(Arg(1))
                       second_mutated == g[2] \notin SeqToSet(Arg(2))
                   IN  /\ WellFormed(g)
                       /\ first_mutated => g[1] = "B"
                       /\ second_mutated => g[2] = "B"
                       /\ ~(first_mutated /\ second_mutated)
                       /\ phenotype = IF g[1] = "B" \/ g[2] = "B" THEN "Blue"
                                      ELSE IF g[1] = "A" \/ g[2] = "A" THEN "Brown"
                                      ELSE "Albino"
           ELSE ~last.ret.ok

\* parents without B had a child whose first allele mutated to B
C27_MutatedChild ==
    /\ last.op = "combine_genes"
    /\ last.ret.ok
    /\ "B" \notin SeqToSet(Arg(1)) \cup SeqToSet(Arg(2))
    /\ last.ret.val[1][1] = "B"
    /\ last.ret.val[1][2] = "a"
    /\ last.ret.val[2] = "Blue"

\* C28: in every reachable store state (including states in which
\* breeding_tick has already been called, and states right after
\* seed_starters or a load that follow earlier ticks), the job appended by
\* a successful start_breeding has start timestamp zero when the call
\* returns, and its start timestamp (zero until then) is set to now by the
\* first breeding_tick(now) that follows.
C28_StartsAtZero ==
    /\ (last.op = "start_breeding" /\ last.ret = "job")
          => breeding_queue[Len(breeding_queue)].start_ts = 0
    /\ (last.op = "breeding_tick" /\ last.ret = "list")
          => \A i \in 1..Len(pre.breeding_queue) :
                pre.breeding_queue[i].start_ts = 0
                    => \E q \in 1..Len(breeding_queue) :
                          breeding_queue[q] = [pre.breeding_queue[i] EXCEPT
                                                  !.start_ts = Arg(1)]

\* the positions of the queue the last tick hatched a job at
HatchedPositions == {last.hatched[k].pos : k \in 1..Len(last.hatched)}
\* the jobs of q at the positions outside gone, in order, as the loop of
\* the tick holds them
KeptJobs(q, now, gone) ==
    LET idx == SelectSeq([i \in 1..Len(q) |-> i], LAMBDA i : i \notin gone)
    IN  [k \in 1..Len(idx) |-> Started(q[idx[k]], now)]

\* C29: for every breeding_tick call on any store state (including one
\* produced by loading a document whose jobs reference creature ids that
\* are not in the creature collection), a job that was in the queue before
\* the call is absent from the queue after the call only if the call
\* produced a newborn for it; every job that did not hatch in this call is
\* retained in the active queue, and the returned list contains exactly the
\* newborns appended to the creature collection by this call.
C29_OnlyHatchedJobsLeave ==
    last.op = "breeding_tick"
        => /\ last.ret = "list"
                 => /\ Len(last.hatched) = Len(last.newborns)
                    /\ breeding_queue
                         = KeptJobs(pre.breeding_queue, Arg(1), HatchedPositions)
                    /\ armadillos = pre.armadillos \o last.newborns
           /\ last.ret = "raise"
                 => Len(breeding_queue) >= Len(pre.breeding_queue) - Len(last.hatched)

\* the first enclosure that lists the id, 0 if none does
HomeOf(habs, id) ==
    IF HomesOf(habs, id) = {} THEN 0
    ELSE CHOOSE k \in HomesOf(habs, id) : \A j \in HomesOf(habs, id) : k <= j

\* The enclosures after the newborns of a tick were housed one after the
\* other by the rule of C30, moms[k] being the mother of babies[k]; ok says
\* that every newborn that got no place is listed in no enclosure.
RECURSIVE Housed(_, _, _, _)
Housed(habs, moms, babies, ok) ==
    IF babies = <<>> THEN [habitats |-> habs, ok |-> ok]
    ELSE LET home == HomeOf(habs, Head(moms))
             room == home # 0 /\ Len(habs[home].occupants) < habs[home].capacity
         IN  IF room
             THEN Housed([habs EXCEPT ![home].occupants = Append(@, Head(babies).id)],
                         Tail(moms), Tail(babies), ok)
             ELSE Housed(habs, Tail(moms), Tail(babies),
                         ok /\ HomesOf(habs, Head(babies).id) = {})

\* C30: when a job hatches in breeding_tick, the newborn's id is added to
\* an enclosure iff the mother's id is an occupant of some enclosure and
\* that enclosure has occupant count < capacity at that moment, and then it
\* is appended to that same enclosure only; otherwise the newborn is in the
\* creature collection but in no enclosure, and no enclosure's occupant list
\* changes.
C30_NewbornHoused ==
    (last.op = "breeding_tick" /\ last.ret = "list" /\ last.newborns # <<>>)
        => LET moms == [k \in 1..Len(last.hatched) |-> last.hatched[k].job.parent_f_id]
               housed == Housed(pre.habitats, moms, last.newborns, TRUE)
           IN  /\ habitats = housed.habitats
               /\ housed.ok
               /\ \A k \in 1..Len(last.newborns) :
                     \E i \in 1..Len(armadillos) : armadillos[i] = last.newborns[k]

\* the last call was a store command that succeeded
Succeeded ==
    \/ last.op \in {"seed_starters", "select", "add_coins", "from_dict"} /\ last.ret = "None"
    \/ last.op \in {"buy", "upgrade_habitat", "feed_selected", "pet_selected",
                    "move_selected_to_habitat"} /\ last.ret = "True"
    \/ last.op = "start_breeding" /\ last.ret = "job"

\* C31: in every successful store command (seed_starters, select,
\* add_coins, buy, upgrade_habitat, feed_selected, pet_selected,
\* move_selected_to_habitat, start_breeding, from_dict) the store state seen
\* by an observer during the notification equals the state at the time the
\* call returns, and each registered observer is invoked exactly once per
\* successful command before the call returns.
C31_NotifiedAfterMutation ==
    Succeeded
        => /\ observed = <<Store>>
           /\ Len(invoked) = Len(observers)
           /\ \A i \in 1..Len(observers) : invoked[i] = observers[i].name

\* a purchase was seen by two observers, the first of which raised
C31_PurchaseSeen ==
    /\ last.op = "buy"
    /\ last.ret = "True"
    /\ Store # pre
    /\ Len(observers) = 2
    /\ observers[1].raises
    /\ Len(invoked) = 2

\* C32: breeding_tick invokes the observers exactly once if the call
\* produced at least one newborn and not at all if it produced none, even
\* when the call changed meta's last-simulated timestamp or initialised a
\* job's start timestamp.
C32_TickNotifiesOnHatch ==
    last.op = "breeding_tick"
        => IF Len(armadillos) > Len(pre.armadillos)
           THEN /\ observed = <<Store>>
                /\ Len(invoked) = Len(observers)
                /\ \A i \in 1..Len(observers) : invoked[i] = observers[i].name
           ELSE observed = <<>> /\ invoked = <<>>

\* a tick with observers registered started a job and moved the
\* last-simulated timestamp, and hatched nothing
C32_QuietStart ==
    /\ last.op = "breeding_tick"
    /\ observers # <<>>
    /\ invoked = <<>>
    /\ meta # pre.meta
    /\ \E i \in 1..Len(pre.breeding_queue) :
          /\ pre.breeding_queue[i].start_ts = 0
          /\ breeding_queue[i].start_ts = Arg(1)
          /\ Arg(1) > 0

\* C33: job status only moves incubating -> done and only inside
\* breeding_tick: no store command other than breeding_tick changes the
\* status of any job, a job marked done carries a non-empty result and is
\* not in the active queue after that tick, so in every state reachable
\* from seed_starters by store commands and ticks every job in the active
\* queue has status incubating and no result. (remaining and is_done are
\* functions of the job and the time and assign nothing.)
C33_StatusOnlyMovesInTick ==
    /\ \A q \in 1..Len(breeding_queue) :
          /\ breeding_queue[q].status = "incubating"
          /\ breeding_queue[q].result = NoResult
    /\ last.op \in {"select", "move_selected_to_habitat", "start_breeding"}
          => /\ Len(breeding_queue) >= Len(pre.breeding_queue)
             /\ \A i \in 1..Len(pre.breeding_queue) :
                   /\ breeding_queue[i].status = pre.breeding_queue[i].status
                   /\ breeding_queue[i].result = pre.breeding_queue[i].result
    /\ last.op = "breeding_tick"
          => /\ Len(breeding_queue) = Len(pre.breeding_queue) - Len(last.hatched)
             /\ \A k \in 1..Len(last.hatched) :
                   /\ pre.breeding_queue[last.hatched[k].pos].status = "incubating"
                   /\ last.hatched[k].job.status = "done"
                   /\ last.hatched[k].job.result # NoResult
                   /\ last.hatched[k].job.result = ArmadilloToDict(last.newborns[k])

\* a tick marked one job done while another stayed in the queue
C33_OneDoneOneQueued ==
    /\ last.op = "breeding_tick"
    /\ Len(last.hatched) = 1
    /\ last.hatched[1].job.status = "done"
    /\ Len(pre.breeding_queue) = 2
    /\ Len(breeding_queue) = 1

\* C34: for every job, remaining(now) is >= 0 and monotonically
\* non-increasing in now, equals max(0, duration_s - (now - start_ts))
\* truncated to an integer, and is_done(now) is true iff status is not done
\* and remaining(now) = 0; once is_done(now) is true for an incubating job
\* it is true for every later now.
C34_Countdown ==
    /\ last.op = "BreedingJob.remaining"
          => LET job == breeding_queue[1]
                 now == last.args[1]
                 left == job.duration_s * Scale - (now - job.start_ts)
             IN  /\ last.ret >= 0
                 /\ last.ret = Max(0, left) \div Scale
                 /\ \A n \in TimerNows :
                       n <= now => remaining(job, n) >= last.ret
                 /\ breeding_queue = pre.breeding_queue
    /\ last.op = "BreedingJob.is_done"
          => LET job == breeding_queue[1]
                 now == last.args[1]
             IN  /\ last.ret <=> (job.status # "done" /\ remaining(job, now) = 0)
                 /\ last.ret /\ job.status = "incubating"
                       => \A n \in TimerNows : n >= now => is_done(job, n)
                 /\ breeding_queue = pre.breeding_queue

\* the countdown of an incubating job was read within its last second:
\* less than a second is left and 0 is returned
C34_LastSecond ==
    /\ last.op = "BreedingJob.remaining"
    /\ breeding_queue[1].status = "incubating"
    /\ breeding_queue[1].duration_s * Scale - (last.args[1] - breeding_queue[1].start_ts) > 0
    /\ last.ret = 0

\* the store without meta["first_run"], the key main.py adds at startup
SavedPart(s) ==
    [s EXCEPT !.meta = [k \in DOMAIN s.meta \ {"first_run"} |-> s.meta[k]]]

\* the file holds a document from which from_dict builds a store
ValidDocument(file) ==
    /\ file.kind = "json"
    /\ from_dict(NewGameState, file.doc).ret # "raise"

\* C35: on startup _load_or_seed restores the store from a previously saved
\* valid document when one exists and calls seed_starters only when no
\* valid document can be loaded; and the _save hook results in the current
\* store state being written to the save document.
C35_StartupRestoresSaveWrites ==
    /\ last.op = "_load_or_seed"
          => IF ValidDocument(last.args[1])
             THEN /\ SavedPart(Store)
                        = SavedPart(from_dict(NewGameState, last.args[1].doc).s)
                  /\ meta["first_run"] = FALSE
             ELSE /\ SavedPart(Store) = SavedPart(seed_starters(NewGameState).s)
                  /\ meta["first_run"] = TRUE
    /\ last.op = "_save" => disk = Json(to_dict(Store))

\* C36: job ids in the active breeding queue are unique: in every state
\* reachable from seed_starters by any interleaving of start_breeding and
\* breeding_tick calls (a new job started after an earlier job has hatched
\* while a later one is still queued included), no two jobs in the queue
\* have the same id.
C36_JobIdsUnique ==
    \A i \in 1..Len(breeding_queue), j \in 1..Len(breeding_queue) :
        i # j => breeding_queue[i].id # breeding_queue[j].id

\* C37: in every state reachable from seed_starters by store commands and
\* ticks, the dex set contains the phenotype (color) of every creature in
\* the creature collection, and no store command or tick other than
\* seed_starters and from_dict ever removes a phenotype from the dex.
C37_DexCoversCreatures ==
    /\ \A i \in 1..Len(armadillos) : armadillos[i].color \in dex_colors
    /\ last.op \notin {"init", "seed_starters", "from_dict", "load"}
          => pre.dex_colors \subseteq dex_colors

\* a tick hatched a newborn of a phenotype the dex did not hold before
C37_NewPhenotype ==
    /\ last.op = "breeding_tick"
    /\ Len(last.newborns) = 1
    /\ last.newborns[1].color \notin pre.dex_colors
    /\ last.newborns[1].color \in dex_colors
    /\ armadillos = Append(pre.armadillos, last.newborns[1])

\* the food count moved as a successful feed_selected or a successful buy
\* of food moves it, or stayed
FoodMovedByFeedOrBuy ==
    /\ FoodOf(Store) < FoodOf(pre)
          => /\ last.op = "feed_selected"
             /\ last.ret = "True"
             /\ FoodOf(Store) = FoodOf(pre) - 1
    /\ FoodOf(Store) > FoodOf(pre)
          => /\ last.op = "buy"
             /\ last.args[1] = "food"
             /\ last.ret = "True"

\* C38 as stated: in every state reachable from seed_starters by store
\* commands and ticks, every inventory count is >= 0; the food count
\* decreases only in a successful feed_selected, by exactly 1 per call, and
\* increases only in a successful buy of food.
C38_FoodOnlyFeedAndBuy ==
    /\ \A k \in DOMAIN inventory : inventory[k] >= 0
    /\ last.op \notin {"init", "load"} /\ pre.armadillos # <<>>
          => FoodMovedByFeedOrBuy

\* C38 amended: every inventory count is >= 0; outside seed_starters and
\* from_dict (with the load that calls it) the food count decreases only in
\* a successful feed_selected, by exactly 1 per call, and increases only in
\* a successful buy of food; seed_starters replaces the inventory by the
\* starter inventory {food: 3, toy: 1}, whatever it held.
C38_FoodOnlyFeedBuyOrReset ==
    /\ \A k \in DOMAIN inventory : inventory[k] >= 0
    /\ last.op \notin {"init", "load", "from_dict", "seed_starters"}
          => FoodMovedByFeedOrBuy
    /\ last.op = "seed_starters"
          => inventory = [k \in {"food", "toy"} |-> IF k = "food" THEN 3 ELSE 1]

\* seed_starters was called on a game holding more food than the starter
\* inventory and lowered the food count
C38_ReseedTakesFood ==
    /\ last.op = "seed_starters"
    /\ pre.armadillos # <<>>
    /\ FoodOf(pre) > 3
    /\ FoodOf(Store) = 3

\* seq is old followed by elements of the set added
ExtendedBy(old, seq, added) ==
    /\ Len(seq) >= Len(old)
    /\ SubSeq(seq, 1, Len(old)) = old
    /\ \A k \in (Len(old) + 1)..Len(seq) : seq[k] \in added

\* C39: breeding_tick changes only meta's last-simulated timestamp, the
\* jobs, the creature collection by appending newborns, the dex by adding
\* phenotypes, and enclosure occupant lists by appending newborn ids: coins,
\* inventory, the selected id, enclosure capacity and level, and every
\* attribute of every previously existing creature are unchanged by any
\* tick.
C39_TickFrame ==
    last.op = "breeding_tick"
        => /\ coins = pre.coins
           /\ inventory = pre.inventory
           /\ selected_id = pre.selected_id
           /\ DOMAIN meta = DOMAIN pre.meta
           /\ \A k \in DOMAIN meta \ {"now_ts"} : meta[k] = pre.meta[k]
           /\ armadillos = pre.armadillos \o last.newborns
           /\ pre.dex_colors \subseteq dex_colors
           /\ dex_colors \ pre.dex_colors
                 \subseteq {last.newborns[k].color : k \in 1..Len(last.newborns)}
           /\ Len(habitats) = Len(pre.habitats)
           /\ \A h \in 1..Len(habitats) :
                 /\ habitats[h].id = pre.habitats[h].id
                 /\ habitats[h].name = pre.habitats[h].name
                 /\ habitats[h].capacity = pre.habitats[h].capacity
                 /\ habitats[h].level = pre.habitats[h].level
                 /\ ExtendedBy(pre.habitats[h].occupants, habitats[h].occupants,
                               {last.newborns[k].id : k \in 1..Len(last.newborns)})
           /\ \A q \in 1..Len(breeding_queue) :
                 \E p \in 1..Len(pre.breeding_queue) :
                    /\ breeding_queue[q].id = pre.breeding_queue[p].id
                    /\ breeding_queue[q].parent_m_id = pre.breeding_queue[p].parent_m_id
                    /\ breeding_queue[q].parent_f_id = pre.breeding_queue[p].parent_f_id
                    /\ breeding_queue[q].duration_s = pre.breeding_queue[p].duration_s

\* a tick hatched a newborn into its mother's enclosure while a creature
\* was selected
C39_HatchedIntoEnclosure ==
    /\ last.op = "breeding_tick"
    /\ Len(last.newborns) = 1
    /\ selected_id # None
    /\ \E h \in 1..Len(habitats) :
          habitats[h].occupants = Append(pre.habitats[h].occupants, last.newborns[1].id)

\* the positions of the creatures adults() returns
Eligible(s) == {i \in 1..Len(s.armadillos) : s.armadillos[i] \in SeqToSet(adults(s))}

\* C40: no store command and no tick changes the age_days or life-stage
\* flags of any creature: a newborn (age_days = 0) stays a baby in every
\* later state reachable without seed_starters or a load, so it is never
\* returned by adults() and start_breeding with it as a parent is always
\* rejected, and the set of creatures eligible for breeding never grows.
C40_NobodyGrowsUp ==
    /\ last.op \notin {"init", "seed_starters", "load", "from_dict"}
          => /\ Len(armadillos) >= Len(pre.armadillos)
             /\ \A i \in 1..Len(pre.armadillos) :
                   /\ armadillos[i].id = pre.armadillos[i].id
                   /\ armadillos[i].age_days = pre.armadillos[i].age_days
                   /\ armadillos[i].is_baby = pre.armadillos[i].is_baby
                   /\ armadillos[i].is_adult = pre.armadillos[i].is_adult
             /\ \A i \in (Len(pre.armadillos) + 1)..Len(armadillos) :
                   armadillos[i].age_days = 0
             /\ Eligible(Store) \subseteq Eligible(pre)
    /\ \A i \in 1..Len(armadillos) :
          armadillos[i].age_days = 0
              => /\ armadillos[i].is_baby
                 /\ ~armadillos[i].is_adult
                 /\ i \notin Eligible(Store)
    /\ (/\ last.op = "start_breeding"
        /\ \E a \in {Arg(1), Arg(2)} :
              a \in Ids(pre.armadillos) /\ Creature(pre, a).age_days = 0)
          => last.ret = "None" /\ breeding_queue = pre.breeding_queue

\* start_breeding named a hatched male of age 0 and an adult female of
\* another id and was rejected
C40_NewbornRejected ==
    /\ last.op = "start_breeding"
    /\ last.ret = "None"
    /\ Arg(1) # Arg(2)
    /\ Arg(1) \in Ids(pre.armadillos)
    /\ Arg(2) \in Ids(pre.armadillos)
    /\ Creature(pre, Arg(1)).sex = "M"
    /\ Creature(pre, Arg(1)).age_days = 0
    /\ Creature(pre, Arg(1)).is_baby
    /\ Creature(pre, Arg(2)).sex = "F"
    /\ Creature(pre, Arg(2)).is_adult
    /\ Len(armadillos) = 4

====
